---- MODULE Spec2Model ----
(***************************************************************************)
(* A model of the layer-2 virtual switch: the Ethernet frame codec, the    *)
(* MAC learning table (MacTable), the VSwitch receive loop with its        *)
(* per-frame learn-and-dispatch algorithm (VSwitch::start, process_frame), *)
(* and the VPort with its two forwarder threads.                           *)
(*                                                                         *)
(* Specifications:                                                         *)
(*   Spec      one thread runs VSwitch::start(), another calls stop()      *)
(*   RaceSpec  two threads call VSwitch::start() on the same VSwitch       *)
(*   TableSpec a MacTable driven by insert / remove / clear / lookup /     *)
(*             get_all_endpoints_except, one whole operation per step      *)
(*   ThreadSafetySpec  the ThreadSafety test: writer and reader threads    *)
(*             on one MacTable, one statement per step, with mutex_        *)
(*   MoveSpec  two threads making arbitrary calls, move assignment         *)
(*             included, on two MacTable objects                           *)
(*   PortSpec  a VPort: its owner calling start / stop / the destructor,   *)
(*             the forwarder threads, and traffic arriving                 *)
(*   PortFairSpec  PortSpec with every thread scheduled fairly             *)
(*   LifecycleSpec  a VSwitch and a VPort without traffic: start, stop,    *)
(*             and the VPort moved from                                    *)
(*   ValueSpec the functions without shared state (the frame codec,        *)
(*             MacAddress::from_string, VPort::create), each applied to    *)
(*             arguments drawn from bounded sets                           *)
(*   FairSpec  Spec with the threads inside start() and stop() scheduled   *)
(*             fairly                                                      *)
(*   SnapshotSpec  a MacTable and a caller keeping get_all_entries' map    *)
(*   FdSpec    two FileDescriptor objects and the descriptors they own     *)
(***************************************************************************)
EXTENDS Integers, Sequences, FiniteSets, TLC

VARIABLES
  running,          \* VSwitch::running_ (std::atomic<bool>)
  mac_table,        \* MacTable::table_ : MacAddress -> Endpoint
  pc,               \* per start() caller: its position in start()/process_frame
  recv_result,      \* per caller: the pair receive_from() returned
  is_new,           \* per caller: local is_new of process_frame
  dst_endpoint,     \* per caller: local dst_endpoint of process_frame
  all_endpoints,    \* per caller: the part of all_endpoints not yet iterated
  sent_count,       \* per caller: local sent_count of process_frame
  start_result,     \* per caller: what the last start() call returned
  stop_pc,          \* position of the thread (or signal handler) calling stop()
  sent,             \* per caller: datagrams handed to ::sendto for the current frame
  before,           \* per caller: binding of the frame's source MAC before the insert
  last_writer,      \* history: MAC -> endpoint of the last datagram learned with that source
  count,            \* history: number of datagrams received / learned / looked up / dispatched, of sends of the current fan-out that succeeded, and whether stop() was called since start() began
  op,               \* TableSpec: the last MacTable operation, its arguments and its result
  ret_vec,          \* TableSpec: the vector the last MacTable operation returned
  inserts,          \* TableSpec history: which MACs were inserted, and whether the last insert was a first one
  table_,           \* per MacTable object: MacTable::table_ as the threads using the object see it
  mutex_,           \* per MacTable object: MacTable::mutex_ (std::shared_mutex), its owner and its sharers
  thread,           \* per thread using a MacTable: the call it is in, its position, locals and result
  committed,        \* history, per MacTable object: table_ when an exclusive lock on mutex_ was last released
  running_,         \* VPort::running_ (std::atomic<bool>)
  workers,          \* per thread spawned by VPort::start: its forwarder function and its position in it
  handle,           \* VPort::tap_to_switch_thread_ and switch_to_tap_thread_: the thread each joining_thread owns
  fds,              \* whether the descriptors of VPort::tap_device_ and udp_socket_ are open
  pending,          \* frames waiting on the tap, datagrams waiting on the socket, and how many arrived in all
  io,               \* per forwarder thread: its frame_data, and the history of what it read and wrote
  ctl,              \* the thread that owns the VPort: the member function it is in, its position and result
  applied,          \* ValueSpec, SnapshotSpec: the function applied last and its arguments
  returned,         \* ValueSpec: what that application returned
  fd_,              \* per FileDescriptor object: FileDescriptor::fd_
  alive,            \* the FileDescriptor objects constructed and not yet destroyed
  closes,           \* history, per descriptor opened: how often ::close was called on it
  raw               \* the descriptors the program holds as plain ints, owned by no object

vars == << running, mac_table, pc, recv_result, is_new, dst_endpoint, all_endpoints,
           sent_count, start_result, stop_pc, sent, before, last_writer, count, op,
           ret_vec, inserts, table_, mutex_, thread, committed,
           running_, workers, handle, fds, pending, io, ctl, applied, returned,
           fd_, alive, closes, raw >>

fd_state == << fd_, alive, closes, raw >>

value_state == << applied, returned, fd_state >>

table_hist == << ret_vec, inserts >>

locked_state == << table_, mutex_, thread, committed >>

port_state == << running_, workers, handle, fds, pending, io, ctl >>

switch_locals == << recv_result, is_new, dst_endpoint, all_endpoints, sent_count, sent, before >>

-----------------------------------------------------------------------------
(* Bounds and program constants *)

\* number of datagrams the socket delivers in one behaviour
MaxDatagrams == 4

MAC_ADDRESS_SIZE == 6

ETHERNET_HEADER_SIZE == 14

-----------------------------------------------------------------------------
(* MacAddress *)

\* MacAddress() : bytes_{0,0,0,0,0,0}
ZeroMac == << 0, 0, 0, 0, 0, 0 >>

\* MacAddress::broadcast()
BroadcastMac == << 255, 255, 255, 255, 255, 255 >>

MacA == << 2, 0, 0, 0, 0, 1 >>

MacB == << 2, 0, 0, 0, 0, 2 >>

Macs == { ZeroMac, BroadcastMac, MacA, MacB }

MacAddress_is_broadcast(mac) == \A i \in 1..MAC_ADDRESS_SIZE : mac[i] = 255

MacAddress_is_zero(mac) == \A i \in 1..MAC_ADDRESS_SIZE : mac[i] = 0

\* the digits std::stoi accepts in base 16 (either case) and their values
HexValue ==
  [ c \in { "0", "1", "2", "3", "4", "5", "6", "7", "8", "9",
            "a", "b", "c", "d", "e", "f", "A", "B", "C", "D", "E", "F" } |->
      CASE c = "0" -> 0 [] c = "1" -> 1 [] c = "2" -> 2 [] c = "3" -> 3 [] c = "4" -> 4
        [] c = "5" -> 5 [] c = "6" -> 6 [] c = "7" -> 7 [] c = "8" -> 8 [] c = "9" -> 9
        [] c \in { "a", "A" } -> 10 [] c \in { "b", "B" } -> 11 [] c \in { "c", "C" } -> 12
        [] c \in { "d", "D" } -> 13 [] c \in { "e", "E" } -> 14 [] c \in { "f", "F" } -> 15 ]

RECURSIVE HexNumber(_)
\* the number a run of hexadecimal digits denotes
HexNumber(digits) ==
  IF digits = << >>
    THEN 0
    ELSE 16 * HexNumber(SubSeq(digits, 1, Len(digits) - 1)) + HexValue[digits[Len(digits)]]

\* std::stoi(str, nullptr, 16): leading white space is skipped, then an optional sign, then
\* an optional 0x, then the longest run of hexadecimal digits is converted; what follows
\* the run is ignored (pos = nullptr), and std::invalid_argument is thrown only when
\* the run is empty.  A string is a sequence of characters.
std_stoi(str) ==
  LET n        == Len(str)
      IsSpace(i) == str[i] \in { " ", "\t", "\n" }
      start    == CHOOSE i \in 1..(n + 1) :
                    /\ \A j \in 1..(i - 1) : IsSpace(j)
                    /\ i <= n => ~IsSpace(i)
      signed   == start <= n /\ str[start] \in { "+", "-" }
      first    == IF signed THEN start + 1 ELSE start
      prefixed == /\ first + 2 <= n
                  /\ str[first] = "0"
                  /\ str[first + 1] \in { "x", "X" }
                  /\ str[first + 2] \in DOMAIN HexValue
      d0       == IF prefixed THEN first + 2 ELSE first
      last     == CHOOSE j \in (d0 - 1)..n :
                    /\ \A k \in d0..j : str[k] \in DOMAIN HexValue
                    /\ j < n => str[j + 1] \notin DOMAIN HexValue
      number   == HexNumber(SubSeq(str, d0, last))
  IN  IF last < d0
        THEN [ thrown |-> TRUE, value |-> 0 ]
        ELSE [ thrown |-> FALSE,
               value  |-> IF signed /\ str[start] = "-" THEN 0 - number ELSE number ]

\* MacAddress::from_string: the loop returns the zero address at the first separator that
\* differs from str[2] and at the first std::stoi that throws, and the address is built
\* from all six conversions otherwise; static_cast<uint8_t> keeps the value modulo 256.
MacAddress_from_string(str) ==
  IF Len(str) /= 17
    THEN ZeroMac
    ELSE
      LET delimiter == str[3]
          byte_str(i) == SubSeq(str, 3 * i + 1, 3 * i + 2)
      IN  IF delimiter /= ":" /\ delimiter /= "-"
            THEN ZeroMac
            ELSE IF \A i \in 0..(MAC_ADDRESS_SIZE - 1) :
                      /\ i > 0 => str[3 * i] = delimiter
                      /\ ~std_stoi(byte_str(i)).thrown
                   THEN [ i \in 1..MAC_ADDRESS_SIZE |->
                            ((std_stoi(byte_str(i - 1)).value % 256) + 256) % 256 ]
                   ELSE ZeroMac

-----------------------------------------------------------------------------
(* EthernetFrame *)

\* EthernetFrame() = default
DefaultFrame ==
  [ dst_mac |-> ZeroMac, src_mac |-> ZeroMac, ethertype |-> 0, payload |-> << >> ]

\* faulty variant of parse: a short input is extended with zero bytes instead of rejected
EthernetFrame_parse_padded(data) ==
  LET padded == [ i \in 1..ETHERNET_HEADER_SIZE |-> IF i <= Len(data) THEN data[i] ELSE 0 ]
      bytes  == IF Len(data) < ETHERNET_HEADER_SIZE THEN padded ELSE data
  IN  [ dst_mac   |-> SubSeq(bytes, 1, MAC_ADDRESS_SIZE),
        src_mac   |-> SubSeq(bytes, MAC_ADDRESS_SIZE + 1, 2 * MAC_ADDRESS_SIZE),
        ethertype |-> ((bytes[13] * 256) % 65536) + bytes[14],
        payload   |-> SubSeq(bytes, ETHERNET_HEADER_SIZE + 1, Len(bytes)) ]

\* faulty variant of serialize: the ethertype is written low byte first
EthernetFrame_serialize_little_endian(f) ==
  f.dst_mac \o f.src_mac
    \o << f.ethertype % 256, (f.ethertype \div 256) % 256 >>
    \o f.payload

EthernetFrame_parse(data) ==
  IF Len(data) < ETHERNET_HEADER_SIZE
    THEN DefaultFrame
    ELSE [ dst_mac   |-> SubSeq(data, 1, MAC_ADDRESS_SIZE),
           src_mac   |-> SubSeq(data, MAC_ADDRESS_SIZE + 1, 2 * MAC_ADDRESS_SIZE),
           ethertype |-> ((data[13] * 256) % 65536) + data[14],
           payload   |-> SubSeq(data, ETHERNET_HEADER_SIZE + 1, Len(data)) ]

EthernetFrame_serialize(f) ==
  f.dst_mac \o f.src_mac
    \o << (f.ethertype \div 256) % 256, f.ethertype % 256 >>
    \o f.payload

-----------------------------------------------------------------------------
(* Endpoint and std::optional<Endpoint> *)

Endpoint(address, port) == [ address |-> address, port |-> port ]

Endpoint_is_valid(e) == e.address /= "" /\ e.port /= 0

Nullopt == [ has_value |-> FALSE ]

Some(e) == [ has_value |-> TRUE, value |-> e ]

EpA == Endpoint("10.0.0.1", 40001)

EpB == Endpoint("10.0.0.2", 40002)

EpC == Endpoint("10.0.0.3", 40003)

\* Endpoint() : address_(), port_(0)
InvalidEp == Endpoint("", 0)

-----------------------------------------------------------------------------
(* MacTable: table_ is a function whose domain is the set of keys *)

EmptyTable == [ m \in {} |-> InvalidEp ]

MacTable_size(t) == Cardinality(DOMAIN t)

\* faulty variant of insert: an existing binding is kept (emplace instead of operator[])
MacTable_insert_keep_existing(t, mac, endpoint) ==
  [ table  |-> [ m \in (DOMAIN t) \cup { mac } |-> IF m \in DOMAIN t THEN t[m] ELSE endpoint ],
    is_new |-> mac \notin DOMAIN t ]

\* faulty variant of insert: is_new is computed after the assignment
MacTable_insert_is_new_after(t, mac, endpoint) ==
  LET assigned == [ m \in (DOMAIN t) \cup { mac } |-> IF m = mac THEN endpoint ELSE t[m] ]
  IN  [ table |-> assigned, is_new |-> mac \notin DOMAIN assigned ]

\* faulty variant of insert: the table holds two entries at most, a third key evicts the others
MacTable_insert_evicting(t, mac, endpoint) ==
  IF mac \notin DOMAIN t /\ Cardinality(DOMAIN t) >= 2
    THEN [ table |-> [ m \in { mac } |-> endpoint ], is_new |-> TRUE ]
    ELSE [ table  |-> [ m \in (DOMAIN t) \cup { mac } |-> IF m = mac THEN endpoint ELSE t[m] ],
           is_new |-> mac \notin DOMAIN t ]

\* bool is_new = (table_.find(mac) == table_.end()); table_[mac] = endpoint;
MacTable_insert(t, mac, endpoint) ==
  [ table  |-> [ m \in (DOMAIN t) \cup { mac } |-> IF m = mac THEN endpoint ELSE t[m] ],
    is_new |-> mac \notin DOMAIN t ]

MacTable_lookup(t, mac) ==
  IF mac \in DOMAIN t THEN Some(t[mac]) ELSE Nullopt

\* faulty variant of remove: the entry is reported as removed but not erased
MacTable_remove_without_erase(t, mac) ==
  [ table   |-> t,
    removed |-> mac \in DOMAIN t ]

\* auto it = table_.find(mac); if (it != table_.end()) { table_.erase(it); return true; } return false;
MacTable_remove(t, mac) ==
  [ table   |-> [ m \in (DOMAIN t) \ { mac } |-> t[m] ],
    removed |-> mac \in DOMAIN t ]

MacTable_clear(t) == EmptyTable

\* the orders in which an unordered_map holding the keys S may be iterated
RECURSIVE IterationOrders(_)
IterationOrders(S) ==
  IF S = {}
    THEN { << >> }
    ELSE UNION { { << first >> \o rest : rest \in IterationOrders(S \ { first }) } : first \in S }

\* faulty variant of get_all_endpoints_except: the excluded key is not skipped
MacTable_get_all_endpoints_ignoring(t, exclude_mac) ==
  { [ i \in 1..Len(o) |-> t[o[i]] ] : o \in IterationOrders(DOMAIN t) }

\* faulty variant of get_all_endpoints_except: entries are skipped by endpoint,
\* every entry bound to the endpoint of exclude_mac is left out
MacTable_get_all_endpoints_except_endpoint(t, exclude_mac) ==
  { [ i \in 1..Len(o) |-> t[o[i]] ] :
      o \in IterationOrders({ m \in DOMAIN t :
               /\ m /= exclude_mac
               /\ exclude_mac \in DOMAIN t => t[m] /= t[exclude_mac] }) }

\* the vectors get_all_endpoints may return: one endpoint per entry, in the
\* map's iteration order
MacTable_get_all_endpoints(t) ==
  { [ i \in 1..Len(o) |-> t[o[i]] ] : o \in IterationOrders(DOMAIN t) }

\* the vectors get_all_endpoints_except may return: one endpoint per entry whose
\* key differs from exclude_mac, in the map's iteration order
MacTable_get_all_endpoints_except(t, exclude_mac) ==
  { [ i \in 1..Len(o) |-> t[o[i]] ] :
      o \in IterationOrders({ m \in DOMAIN t : m /= exclude_mac }) }

-----------------------------------------------------------------------------
(* UdpSocket *)

\* send_to: an invalid endpoint is refused before ::sendto; otherwise one datagram
\* with the given bytes is handed to ::sendto for that endpoint
UdpSocket_send_to(out, data, endpoint) ==
  IF ~Endpoint_is_valid(endpoint)
    THEN out
    ELSE Append(out, [ data |-> data, to |-> endpoint ])

\* the endpoints datagrams arrive from: receive_from builds them from the
\* peer address of ::recvfrom, a non-empty dotted quad and the peer's bound port
Senders == { EpA, EpB, EpC }

Frame(dst, src) == [ dst_mac |-> dst, src_mac |-> src, ethertype |-> 2048, payload |-> << >> ]

\* the datagrams that may arrive: every (dst, src) header over Macs, one frame
\* with a payload, and datagrams shorter than the Ethernet header
ShortDatagrams ==
  { << >>,
    << 255, 255, 255, 255, 255, 255, 2, 0, 0, 0, 0, 1, 8 >> }

Datagrams ==
  { EthernetFrame_serialize(Frame(d, s)) : d \in Macs, s \in Macs }
    \cup { EthernetFrame_serialize([ Frame(MacA, MacB) EXCEPT !.payload = << 222, 173 >> ]) }
    \cup ShortDatagrams

NoRecv == [ has_value |-> FALSE ]

-----------------------------------------------------------------------------
(* VSwitch::start, VSwitch::stop, VSwitch::process_frame *)

Callers == DOMAIN pc

NoWriter == [ m \in Macs |-> Nullopt ]

\* history: what the Switch has done so far; stops = 1 when stop() has been called
\* since the start() call in progress (or the last one) began
ZeroCount ==
  [ received |-> 0, learned |-> 0, looked_up |-> 0, dispatched |-> 0, fanout_ok |-> 0,
    stops |-> 0 ]

NoOp == [ name |-> "none" ]

\* no insert has been made on the table yet
NoInserts == [ ever |-> {}, since |-> {}, first |-> FALSE, fresh |-> FALSE ]

\* the MacTable objects threads work on: one table and a second one it is moved from or to
Objects == { "table", "other" }

\* std::shared_mutex after construction: no owner, no sharer
FreeMutex == [ writer |-> {}, readers |-> {} ]

\* a thread that is in no MacTable call
IdleThread ==
  [ pc |-> "idle", op |-> "none", obj |-> "table", src |-> "table", mac |-> ZeroMac,
    endpoint |-> InvalidEp, is_new |-> FALSE, ret |-> << >>, snap |-> EmptyTable, i |-> 0 ]

\* default-constructed MacTable objects and the threads that will use them
LockedInit(threads) ==
  /\ table_ = [ o \in Objects |-> EmptyTable ]
  /\ mutex_ = [ o \in Objects |-> FreeMutex ]
  /\ thread = [ t \in threads |-> IdleThread ]
  /\ committed = [ o \in Objects |-> EmptyTable ]

\* the two forwarder functions a VPort runs, one thread each
Kinds == { "tap_to_switch", "switch_to_tap" }

\* a joining_thread that owns no thread (not joinable)
NoThread == << >>

\* the owner of the VPort is in none of its member functions
IdleCtl ==
  [ pc |-> "idle", op |-> "none", result |-> "none", kind |-> "tap_to_switch", member |-> 0,
    starts |-> 0, before |-> [ running |-> FALSE, workers |-> {}, handle |-> << >> ] ]

\* VPort::VPort(TapDevice, UdpSocket, Endpoint, std::string) after a successful create()
PortInit ==
  /\ running_ = FALSE
  /\ workers = [ w \in {} |-> "loop" ]
  /\ handle = [ k \in Kinds |-> NoThread ]
  /\ fds = [ tap |-> TRUE, socket |-> TRUE ]
  /\ pending = [ tap |-> << >>, socket |-> << >>, arrived |-> 0 ]
  /\ io = << >>
  /\ ctl = IdleCtl

\* no function has been applied
ValueInit ==
  /\ applied = [ name |-> "none" ]
  /\ returned = [ name |-> "none" ]
  /\ fd_ = [ w \in { "fd1", "fd2" } |-> -1 ]
  /\ alive = {}
  /\ closes = << >>
  /\ raw = {}

SwitchInit(callers) ==
  /\ running = FALSE
  /\ mac_table = EmptyTable
  /\ pc = [ t \in callers |-> "idle" ]
  /\ recv_result = [ t \in callers |-> NoRecv ]
  /\ is_new = [ t \in callers |-> FALSE ]
  /\ dst_endpoint = [ t \in callers |-> Nullopt ]
  /\ all_endpoints = [ t \in callers |-> << >> ]
  /\ sent_count = [ t \in callers |-> 0 ]
  /\ start_result = [ t \in callers |-> "none" ]
  /\ stop_pc = "idle"
  /\ sent = [ t \in callers |-> << >> ]
  /\ before = [ t \in callers |-> Nullopt ]
  /\ last_writer = NoWriter
  /\ count = ZeroCount
  /\ op = NoOp
  /\ ret_vec = << >>
  /\ inserts = NoInserts

\* start(): if (running_.load()) return unexpected(AlreadyRunning);
VSwitch_start_check(t) ==
  /\ pc[t] = "idle"
  /\ IF running
       THEN /\ start_result' = [ start_result EXCEPT ![t] = "AlreadyRunning" ]
            /\ pc' = pc
       ELSE /\ start_result' = [ start_result EXCEPT ![t] = "none" ]
            /\ pc' = [ pc EXCEPT ![t] = "store" ]
  /\ count' = [ count EXCEPT !.stops = 0 ]
  /\ UNCHANGED << running, mac_table, switch_locals, stop_pc, last_writer, op, table_hist, locked_state, port_state, value_state >>

\* start(): running_.store(true);
VSwitch_start_store(t) ==
  /\ pc[t] = "store"
  /\ running' = TRUE
  /\ pc' = [ pc EXCEPT ![t] = "loop" ]
  /\ UNCHANGED << mac_table, switch_locals, start_result, stop_pc, last_writer, count, op, table_hist, locked_state, port_state, value_state >>

\* faulty variant of the loop condition: the flag is not tested, the loop never ends
VSwitch_start_loop_forever(t) ==
  /\ pc[t] = "loop"
  /\ pc' = [ pc EXCEPT ![t] = "recv" ]
  /\ start_result' = start_result
  /\ UNCHANGED << running, mac_table, switch_locals, stop_pc, last_writer, count, op, table_hist, locked_state, port_state, value_state >>

\* start(): while (running_.load()) ... return expected<void, VSwitchError>();
VSwitch_start_loop(t) ==
  /\ pc[t] = "loop"
  /\ IF running
       THEN /\ pc' = [ pc EXCEPT ![t] = "recv" ]
            /\ start_result' = start_result
       ELSE /\ pc' = [ pc EXCEPT ![t] = "idle" ]
            /\ start_result' = [ start_result EXCEPT ![t] = "ok" ]
  /\ UNCHANGED << running, mac_table, switch_locals, stop_pc, last_writer, count, op, table_hist, locked_state, port_state, value_state >>

\* faulty variant of process_frame: the destination is dispatched without learning
process_frame_entry_without_learn == "lookup"

\* the statement of process_frame that runs first on a received datagram
process_frame_entry == "learn"

\* start(): auto recv_result = socket_.receive_from(); on success the loop body
\* binds frame_data and sender_endpoint and calls process_frame
VSwitch_start_receive(t, datagrams, senders) ==
  /\ pc[t] = "recv"
  /\ count.received < MaxDatagrams
  /\ \E data \in datagrams, sender \in senders :
       recv_result' = [ recv_result EXCEPT
                          ![t] = [ has_value |-> TRUE, frame_data |-> data,
                                   sender_endpoint |-> sender ] ]
  /\ pc' = [ pc EXCEPT ![t] = process_frame_entry ]
  /\ is_new' = [ is_new EXCEPT ![t] = FALSE ]
  /\ dst_endpoint' = [ dst_endpoint EXCEPT ![t] = Nullopt ]
  /\ all_endpoints' = [ all_endpoints EXCEPT ![t] = << >> ]
  /\ sent_count' = [ sent_count EXCEPT ![t] = 0 ]
  /\ sent' = [ sent EXCEPT ![t] = << >> ]
  /\ before' = [ before EXCEPT ![t] = Nullopt ]
  /\ count' = [ count EXCEPT !.received = @ + 1 ]
  /\ UNCHANGED << running, mac_table, start_result, stop_pc, last_writer, op, table_hist, locked_state, port_state, value_state >>

\* faulty variant of the error branch: start() gives up at the first receive error
VSwitch_start_receive_error_returns(t) ==
  /\ pc[t] = "recv"
  /\ recv_result' = [ recv_result EXCEPT ![t] = NoRecv ]
  /\ pc' = [ pc EXCEPT ![t] = "idle" ]
  /\ start_result' = [ start_result EXCEPT ![t] = "ReceiveFailed" ]
  /\ UNCHANGED << running, mac_table, is_new, dst_endpoint, all_endpoints, sent_count, sent,
                  before, stop_pc, last_writer, count, op, table_hist, locked_state,
                  port_state, value_state >>

\* start(): auto recv_result = socket_.receive_from(); if (!recv_result) continue;
VSwitch_start_receive_error(t) ==
  /\ pc[t] = "recv"
  /\ recv_result' = [ recv_result EXCEPT ![t] = NoRecv ]
  /\ pc' = [ pc EXCEPT ![t] = "loop" ]
  /\ UNCHANGED << running, mac_table, is_new, dst_endpoint, all_endpoints, sent_count, sent,
                  before, start_result, stop_pc, last_writer, count, op, table_hist,
                  locked_state, port_state, value_state >>

frame_data(t) == recv_result[t].frame_data

sender_endpoint(t) == recv_result[t].sender_endpoint

\* auto frame = EthernetFrame::parse(frame_data);
frame(t) == EthernetFrame_parse(frame_data(t))

\* process_frame: bool is_new = mac_table_.insert(frame.src_mac(), sender_endpoint);
process_frame_learn(t) ==
  /\ pc[t] = "learn"
  /\ LET r == MacTable_insert(mac_table, frame(t).src_mac, sender_endpoint(t))
     IN  /\ mac_table' = r.table
         /\ is_new' = [ is_new EXCEPT ![t] = r.is_new ]
  /\ before' = [ before EXCEPT ![t] = MacTable_lookup(mac_table, frame(t).src_mac) ]
  /\ last_writer' = [ last_writer EXCEPT ![frame(t).src_mac] = Some(sender_endpoint(t)) ]
  /\ count' = [ count EXCEPT !.learned = @ + 1 ]
  /\ pc' = [ pc EXCEPT ![t] = "lookup" ]
  /\ UNCHANGED << running, recv_result, dst_endpoint, all_endpoints, sent_count,
                  start_result, stop_pc, sent, op, table_hist, locked_state, port_state, value_state >>

\* process_frame: auto dst_endpoint = mac_table_.lookup(dst_mac);
process_frame_lookup(t) ==
  /\ pc[t] = "lookup"
  /\ dst_endpoint' = [ dst_endpoint EXCEPT ![t] = MacTable_lookup(mac_table, frame(t).dst_mac) ]
  /\ count' = [ count EXCEPT !.looked_up = @ + 1 ]
  /\ pc' = [ pc EXCEPT ![t] = "dispatch" ]
  /\ UNCHANGED << running, mac_table, recv_result, is_new, all_endpoints, sent_count,
                  start_result, stop_pc, sent, before, last_writer, op, table_hist, locked_state, port_state, value_state >>

\* faulty variant of the dispatch: an unknown unicast is flooded like a broadcast
process_frame_branch_flood_unknown(dst_ep, dst_mac) ==
  IF dst_ep.has_value THEN "unicast" ELSE "broadcast"

\* faulty variant of the dispatch: the broadcast test precedes the lookup result
process_frame_branch_broadcast_first(dst_ep, dst_mac) ==
  IF MacAddress_is_broadcast(dst_mac) THEN "broadcast"
  ELSE IF dst_ep.has_value THEN "unicast"
  ELSE "discard"

\* process_frame: which branch of the if / else if / else the frame takes
process_frame_branch(dst_ep, dst_mac) ==
  IF dst_ep.has_value THEN "unicast"
  ELSE IF MacAddress_is_broadcast(dst_mac) THEN "broadcast"
  ELSE "discard"

\* faulty variant of the unicast forward: the parsed frame is serialized again
\* and sent in place of the received bytes
process_frame_unicast_reserialized(t) ==
  /\ pc[t] = "dispatch"
  /\ process_frame_branch(dst_endpoint[t], frame(t).dst_mac) = "unicast"
  /\ sent' = [ sent EXCEPT ![t] = UdpSocket_send_to(@, EthernetFrame_serialize(frame(t)),
                                                    dst_endpoint[t].value) ]
  /\ pc' = [ pc EXCEPT ![t] = "ret" ]
  /\ UNCHANGED << running, mac_table, recv_result, is_new, dst_endpoint, all_endpoints,
                  sent_count, start_result, stop_pc, before, last_writer, count, op, table_hist, locked_state, port_state, value_state >>

\* process_frame: socket_.send_to(frame_data, *dst_endpoint);
process_frame_unicast(t) ==
  /\ pc[t] = "dispatch"
  /\ process_frame_branch(dst_endpoint[t], frame(t).dst_mac) = "unicast"
  /\ sent' = [ sent EXCEPT ![t] = UdpSocket_send_to(@, frame_data(t), dst_endpoint[t].value) ]
  /\ pc' = [ pc EXCEPT ![t] = "ret" ]
  /\ UNCHANGED << running, mac_table, recv_result, is_new, dst_endpoint, all_endpoints,
                  sent_count, start_result, stop_pc, before, last_writer, count, op, table_hist, locked_state, port_state, value_state >>

\* faulty variant of the flood: the destination MAC is excluded, not the source MAC
process_frame_broadcast_except_dst(t) ==
  /\ pc[t] = "dispatch"
  /\ process_frame_branch(dst_endpoint[t], frame(t).dst_mac) = "broadcast"
  /\ \E list \in MacTable_get_all_endpoints_except(mac_table, frame(t).dst_mac) :
       all_endpoints' = [ all_endpoints EXCEPT ![t] = list ]
  /\ sent_count' = [ sent_count EXCEPT ![t] = 0 ]
  /\ count' = [ count EXCEPT !.fanout_ok = 0 ]
  /\ pc' = [ pc EXCEPT ![t] = "fanout" ]
  /\ UNCHANGED << running, mac_table, recv_result, is_new, dst_endpoint,
                  start_result, stop_pc, sent, before, last_writer, op, table_hist, locked_state, port_state, value_state >>

\* process_frame: auto all_endpoints = mac_table_.get_all_endpoints_except(frame.src_mac());
process_frame_broadcast(t) ==
  /\ pc[t] = "dispatch"
  /\ process_frame_branch(dst_endpoint[t], frame(t).dst_mac) = "broadcast"
  /\ \E list \in MacTable_get_all_endpoints_except(mac_table, frame(t).src_mac) :
       all_endpoints' = [ all_endpoints EXCEPT ![t] = list ]
  /\ sent_count' = [ sent_count EXCEPT ![t] = 0 ]
  /\ count' = [ count EXCEPT !.fanout_ok = 0 ]
  /\ pc' = [ pc EXCEPT ![t] = "fanout" ]
  /\ UNCHANGED << running, mac_table, recv_result, is_new, dst_endpoint,
                  start_result, stop_pc, sent, before, last_writer, op, table_hist, locked_state, port_state, value_state >>

\* faulty variant of the fan-out: the loop is left at the first send that fails
process_frame_fanout_send_until_error(t) ==
  /\ pc[t] = "fanout"
  /\ all_endpoints[t] /= << >>
  /\ sent' = [ sent EXCEPT ![t] = UdpSocket_send_to(@, frame_data(t), Head(all_endpoints[t])) ]
  /\ \E send_ok \in BOOLEAN :
       /\ sent_count' = [ sent_count EXCEPT ![t] = IF send_ok THEN @ + 1 ELSE @ ]
       /\ count' = [ count EXCEPT !.fanout_ok = IF send_ok THEN @ + 1 ELSE @ ]
       /\ all_endpoints' = [ all_endpoints EXCEPT ![t] = IF send_ok THEN Tail(@) ELSE << >> ]
  /\ UNCHANGED << running, mac_table, pc, recv_result, is_new, dst_endpoint,
                  start_result, stop_pc, before, last_writer, op, table_hist, locked_state, port_state, value_state >>

\* faulty variant of the fan-out: an endpoint that already got a copy is skipped
process_frame_fanout_send_once(t) ==
  /\ pc[t] = "fanout"
  /\ all_endpoints[t] /= << >>
  /\ \E send_ok \in BOOLEAN :
       LET again == \E i \in DOMAIN sent[t] : sent[t][i].to = Head(all_endpoints[t])
       IN  /\ sent' = [ sent EXCEPT ![t] = IF again THEN @ ELSE UdpSocket_send_to(@, frame_data(t), Head(all_endpoints[t])) ]
           /\ sent_count' = [ sent_count EXCEPT ![t] = IF send_ok /\ ~again THEN @ + 1 ELSE @ ]
           /\ count' = [ count EXCEPT !.fanout_ok = IF send_ok /\ ~again THEN @ + 1 ELSE @ ]
  /\ all_endpoints' = [ all_endpoints EXCEPT ![t] = Tail(@) ]
  /\ UNCHANGED << running, mac_table, pc, recv_result, is_new, dst_endpoint,
                  start_result, stop_pc, before, last_writer, op, table_hist, locked_state, port_state, value_state >>

\* process_frame: one iteration of for (const auto& endpoint : all_endpoints);
\* ::sendto may fail, and only a successful send is counted; the history
\* counts the sends that succeeded
process_frame_fanout_send(t) ==
  /\ pc[t] = "fanout"
  /\ all_endpoints[t] /= << >>
  /\ sent' = [ sent EXCEPT ![t] = UdpSocket_send_to(@, frame_data(t), Head(all_endpoints[t])) ]
  /\ \E send_ok \in BOOLEAN :
       /\ sent_count' = [ sent_count EXCEPT ![t] = IF send_ok THEN @ + 1 ELSE @ ]
       /\ count' = [ count EXCEPT !.fanout_ok = IF send_ok THEN @ + 1 ELSE @ ]
  /\ all_endpoints' = [ all_endpoints EXCEPT ![t] = Tail(@) ]
  /\ UNCHANGED << running, mac_table, pc, recv_result, is_new, dst_endpoint,
                  start_result, stop_pc, before, last_writer, op, table_hist, locked_state, port_state, value_state >>

\* process_frame: the range-for has visited every endpoint
process_frame_fanout_done(t) ==
  /\ pc[t] = "fanout"
  /\ all_endpoints[t] = << >>
  /\ pc' = [ pc EXCEPT ![t] = "ret" ]
  /\ UNCHANGED << running, mac_table, switch_locals, start_result, stop_pc,
                  last_writer, count, op, table_hist, locked_state, port_state, value_state >>

\* process_frame: else branch, the frame is discarded
process_frame_discard(t) ==
  /\ pc[t] = "dispatch"
  /\ process_frame_branch(dst_endpoint[t], frame(t).dst_mac) = "discard"
  /\ pc' = [ pc EXCEPT ![t] = "ret" ]
  /\ UNCHANGED << running, mac_table, switch_locals, start_result, stop_pc,
                  last_writer, count, op, table_hist, locked_state, port_state, value_state >>

\* process_frame returns to the loop of start(); the loop body's locals go out of scope
process_frame_return(t) ==
  /\ pc[t] = "ret"
  /\ pc' = [ pc EXCEPT ![t] = "loop" ]
  /\ recv_result' = [ recv_result EXCEPT ![t] = NoRecv ]
  /\ is_new' = [ is_new EXCEPT ![t] = FALSE ]
  /\ dst_endpoint' = [ dst_endpoint EXCEPT ![t] = Nullopt ]
  /\ all_endpoints' = [ all_endpoints EXCEPT ![t] = << >> ]
  /\ sent_count' = [ sent_count EXCEPT ![t] = 0 ]
  /\ sent' = [ sent EXCEPT ![t] = << >> ]
  /\ before' = [ before EXCEPT ![t] = Nullopt ]
  /\ count' = [ count EXCEPT !.dispatched = @ + 1, !.fanout_ok = 0 ]
  /\ UNCHANGED << running, mac_table, start_result, stop_pc, last_writer, op, table_hist, locked_state, port_state, value_state >>

\* stop(): if (!running_.load()) return;
VSwitch_stop_check ==
  /\ stop_pc = "idle"
  /\ stop_pc' = IF running THEN "store" ELSE "idle"
  /\ count' = [ count EXCEPT !.stops = 1 ]
  /\ UNCHANGED << running, mac_table, pc, switch_locals, start_result, last_writer, op, table_hist, locked_state, port_state, value_state >>

\* stop(): running_.store(false);
VSwitch_stop_store ==
  /\ stop_pc = "store"
  /\ running' = FALSE
  /\ stop_pc' = "idle"
  /\ UNCHANGED << mac_table, pc, switch_locals, start_result, last_writer, count, op, table_hist, locked_state, port_state, value_state >>

Init == SwitchInit({ "main" }) /\ LockedInit({}) /\ PortInit /\ ValueInit

Next ==
  \/ \E t \in Callers : VSwitch_start_check(t)
  \/ \E t \in Callers : VSwitch_start_store(t)
  \/ \E t \in Callers : VSwitch_start_loop(t)
  \/ \E t \in Callers : VSwitch_start_receive(t, Datagrams, Senders)
  \/ \E t \in Callers : VSwitch_start_receive_error(t)
  \/ \E t \in Callers : process_frame_learn(t)
  \/ \E t \in Callers : process_frame_lookup(t)
  \/ \E t \in Callers : process_frame_unicast(t)
  \/ \E t \in Callers : process_frame_broadcast(t)
  \/ \E t \in Callers : process_frame_fanout_send(t)
  \/ \E t \in Callers : process_frame_fanout_done(t)
  \/ \E t \in Callers : process_frame_discard(t)
  \/ \E t \in Callers : process_frame_return(t)
  \/ VSwitch_stop_check
  \/ VSwitch_stop_store

Spec == Init /\ [][Next]_vars

\* a step of thread t inside the start() it has called; receive_from() returns
\* (with an error when no datagram is left)
VSwitch_start_step(t) ==
  \/ VSwitch_start_store(t)
  \/ VSwitch_start_loop(t)
  \/ VSwitch_start_receive(t, Datagrams, Senders)
  \/ VSwitch_start_receive_error(t)
  \/ process_frame_learn(t)
  \/ process_frame_lookup(t)
  \/ process_frame_unicast(t)
  \/ process_frame_broadcast(t)
  \/ process_frame_fanout_send(t)
  \/ process_frame_fanout_done(t)
  \/ process_frame_discard(t)
  \/ process_frame_return(t)

\* the thread inside start() and the thread inside stop() are scheduled
\* eventually; whether and when start() and stop() are called is left open
FairSpec ==
  /\ Init
  /\ [][Next]_vars
  /\ WF_vars(VSwitch_start_step("main"))
  /\ WF_vars(VSwitch_stop_store)

-----------------------------------------------------------------------------
(* Two threads calling start() on one VSwitch *)

RaceDatagrams ==
  { EthernetFrame_serialize(Frame(MacB, MacA)),
    EthernetFrame_serialize(Frame(BroadcastMac, MacB)) }

RaceSenders == { EpA, EpB }

RaceInit == SwitchInit({ "main", "second" }) /\ LockedInit({}) /\ PortInit /\ ValueInit

RaceNext ==
  \/ \E t \in Callers : VSwitch_start_check(t)
  \/ \E t \in Callers : VSwitch_start_store(t)
  \/ \E t \in Callers : VSwitch_start_loop(t)
  \/ \E t \in Callers : VSwitch_start_receive(t, RaceDatagrams, RaceSenders)
  \/ \E t \in Callers : VSwitch_start_receive_error(t)
  \/ \E t \in Callers : process_frame_learn(t)
  \/ \E t \in Callers : process_frame_lookup(t)
  \/ \E t \in Callers : process_frame_unicast(t)
  \/ \E t \in Callers : process_frame_broadcast(t)
  \/ \E t \in Callers : process_frame_fanout_send(t)
  \/ \E t \in Callers : process_frame_fanout_done(t)
  \/ \E t \in Callers : process_frame_discard(t)
  \/ \E t \in Callers : process_frame_return(t)
  \/ VSwitch_stop_check
  \/ VSwitch_stop_store

RaceSpec == RaceInit /\ [][RaceNext]_vars

-----------------------------------------------------------------------------
(* A MacTable on its own *)

\* the endpoints handed to insert: any Endpoint value, valid or not
TableEndpoints == Senders \cup { InvalidEp }

OpRecord(name, mac, endpoint, ret_bool, ret_opt, t) ==
  [ name |-> name, mac |-> mac, endpoint |-> endpoint,
    ret_bool |-> ret_bool, ret_opt |-> ret_opt, before |-> t ]

switch_state == << running, pc, switch_locals, start_result, stop_pc, last_writer, count,
                   locked_state, port_state, value_state >>

\* the insert history after insert(mac): first = no insert of mac was made
\* before; fresh = none was made since mac was last removed or the table cleared
Inserted(mac) ==
  [ ever  |-> inserts.ever \cup { mac },
    since |-> inserts.since \cup { mac },
    first |-> mac \notin inserts.ever,
    fresh |-> mac \notin inserts.since ]

\* the insert history after an operation that erases the keys in macs
Erased(macs) ==
  [ ever |-> inserts.ever, since |-> inserts.since \ macs, first |-> FALSE, fresh |-> FALSE ]

Table_insert(mac, endpoint) ==
  /\ LET r == MacTable_insert(mac_table, mac, endpoint)
     IN  /\ mac_table' = r.table
         /\ op' = OpRecord("insert", mac, endpoint, r.is_new, Nullopt, mac_table)
  /\ ret_vec' = << >>
  /\ inserts' = Inserted(mac)
  /\ UNCHANGED switch_state

Table_lookup(mac) ==
  /\ mac_table' = mac_table
  /\ op' = OpRecord("lookup", mac, InvalidEp, FALSE, MacTable_lookup(mac_table, mac), mac_table)
  /\ ret_vec' = << >>
  /\ inserts' = Erased({})
  /\ UNCHANGED switch_state

Table_remove(mac) ==
  /\ LET r == MacTable_remove(mac_table, mac)
     IN  /\ mac_table' = r.table
         /\ op' = OpRecord("remove", mac, InvalidEp, r.removed, Nullopt, mac_table)
  /\ ret_vec' = << >>
  /\ inserts' = Erased({ mac })
  /\ UNCHANGED switch_state

Table_clear ==
  /\ mac_table' = MacTable_clear(mac_table)
  /\ op' = OpRecord("clear", ZeroMac, InvalidEp, FALSE, Nullopt, mac_table)
  /\ ret_vec' = << >>
  /\ inserts' = Erased(Macs)
  /\ UNCHANGED switch_state

Table_get_all_endpoints_except(exclude_mac) ==
  /\ mac_table' = mac_table
  /\ op' = OpRecord("get_all_endpoints_except", exclude_mac, InvalidEp, FALSE, Nullopt, mac_table)
  /\ ret_vec' \in MacTable_get_all_endpoints_except(mac_table, exclude_mac)
  /\ inserts' = Erased({})
  /\ UNCHANGED switch_state

TableInit == SwitchInit({}) /\ LockedInit({}) /\ PortInit /\ ValueInit

TableNext ==
  \/ \E mac \in Macs, endpoint \in TableEndpoints : Table_insert(mac, endpoint)
  \/ \E mac \in Macs : Table_lookup(mac)
  \/ \E mac \in Macs : Table_remove(mac)
  \/ Table_clear
  \/ \E mac \in Macs : Table_get_all_endpoints_except(mac)

TableSpec == TableInit /\ [][TableNext]_vars

-----------------------------------------------------------------------------
(* A caller that keeps the map returned by get_all_entries *)

\* faulty variant of get_all_entries: a reference to table_ is returned
MacTable_get_all_entries_by_reference(t) == [ alias |-> TRUE, map |-> t ]

\* get_all_entries: return table_; the return type is a map, not a reference,
\* so the caller receives a new map object holding the entries of table_
MacTable_get_all_entries(t) == [ alias |-> FALSE, map |-> t ]

\* the entries the caller finds in a map object it was handed
Entries(object) == IF object.alias THEN mac_table ELSE object.map

\* auto entries = table.get_all_entries(); the caller keeps entries
Table_get_all_entries ==
  /\ mac_table' = mac_table
  /\ op' = OpRecord("get_all_entries", ZeroMac, InvalidEp, FALSE, Nullopt, mac_table)
  /\ ret_vec' = << >>
  /\ inserts' = Erased({})
  /\ applied' = [ name |-> "get_all_entries", table |-> mac_table ]
  /\ returned' = MacTable_get_all_entries(mac_table)
  /\ UNCHANGED << running, pc, switch_locals, start_result, stop_pc, last_writer, count,
                  locked_state, port_state, fd_state >>

SnapshotNext ==
  \/ \E mac \in { MacA, MacB }, endpoint \in { EpA, EpB } : Table_insert(mac, endpoint)
  \/ \E mac \in { MacA, MacB } : Table_remove(mac)
  \/ Table_clear
  \/ Table_get_all_entries

SnapshotSpec == TableInit /\ [][SnapshotNext]_vars

-----------------------------------------------------------------------------
(* MacTable under concurrent callers: every operation runs between taking *)
(* and releasing mutex_, one step per statement in between                 *)

\* the operations that take std::unique_lock on mutex_
ExclusiveOps == { "insert", "remove", "clear", "move_assign" }

\* the operations that take std::shared_lock on mutex_
SharedOps ==
  { "lookup", "contains", "size", "empty", "get_all_endpoints", "get_all_endpoints_except",
    "get_all_entries" }

Threads == DOMAIN thread

Call(op_name, obj, src, mac, endpoint) ==
  [ op |-> op_name, obj |-> obj, src |-> src, mac |-> mac, endpoint |-> endpoint ]

\* the variables no MacTable call of a thread touches
unlocked_state ==
  << running, mac_table, pc, switch_locals, start_result, stop_pc, last_writer, count, op,
     table_hist, port_state, value_state >>

\* faulty variant of the shared lock: it is granted while another thread owns the mutex
shared_lock_ignoring_owner(mx) == TRUE

\* std::shared_lock lock(mutex_) is granted when no thread owns the mutex exclusively
shared_lock_available(mx) == mx.writer = {}

\* std::unique_lock lock(mutex_) is granted when no thread owns or shares the mutex
unique_lock_available(mx) == mx.writer = {} /\ mx.readers = {}

\* what a read operation returns on the table t (a set: iteration order is not fixed)
MacTable_read_result(op_name, t, mac) ==
  CASE op_name = "lookup" -> { MacTable_lookup(t, mac) }
    [] op_name = "contains" -> { mac \in DOMAIN t }
    [] op_name = "size" -> { MacTable_size(t) }
    [] op_name = "empty" -> { MacTable_size(t) = 0 }
    [] op_name = "get_all_endpoints" -> MacTable_get_all_endpoints(t)
    [] op_name = "get_all_endpoints_except" -> MacTable_get_all_endpoints_except(t, mac)
    [] op_name = "get_all_entries" -> { t }

\* a thread enters one of the calls its program allows next
MacTable_call(t, calls) ==
  /\ thread[t].pc = "idle"
  /\ \E c \in calls :
       thread' = [ thread EXCEPT ![t] =
                     [ @ EXCEPT !.pc = "lock", !.op = c.op, !.obj = c.obj, !.src = c.src,
                                !.mac = c.mac, !.endpoint = c.endpoint, !.is_new = FALSE,
                                !.ret = << >>, !.snap = EmptyTable ] ]
  /\ UNCHANGED << table_, mutex_, committed, unlocked_state >>

\* std::unique_lock lock(mutex_); at the head of insert, remove, clear and operator=(MacTable&&)
MacTable_lock_unique(t) ==
  /\ thread[t].pc = "lock"
  /\ thread[t].op \in ExclusiveOps
  /\ ~(thread[t].op = "move_assign" /\ thread[t].obj = thread[t].src)
  /\ unique_lock_available(mutex_[thread[t].obj])
  /\ mutex_' = [ mutex_ EXCEPT ![thread[t].obj].writer = { t } ]
  /\ thread' = [ thread EXCEPT ![t].pc =
                   CASE thread[t].op = "insert" -> "find"
                     [] thread[t].op = "remove" -> "erase"
                     [] thread[t].op = "clear" -> "clear"
                     [] thread[t].op = "move_assign" -> "move" ]
  /\ UNCHANGED << table_, committed, unlocked_state >>

\* std::shared_lock lock(mutex_); at the head of every read operation
MacTable_lock_shared(t) ==
  /\ thread[t].pc = "lock"
  /\ thread[t].op \in SharedOps
  /\ shared_lock_available(mutex_[thread[t].obj])
  /\ mutex_' = [ mutex_ EXCEPT ![thread[t].obj].readers = @ \cup { t } ]
  /\ thread' = [ thread EXCEPT ![t].pc = "read" ]
  /\ UNCHANGED << table_, committed, unlocked_state >>

\* insert: bool is_new = (table_.find(mac) == table_.end());
MacTable_insert_find(t) ==
  /\ thread[t].pc = "find"
  /\ thread' = [ thread EXCEPT
                   ![t].is_new = MacTable_insert(table_[thread[t].obj], thread[t].mac,
                                                 thread[t].endpoint).is_new,
                   ![t].pc = "subscript" ]
  /\ UNCHANGED << table_, mutex_, committed, unlocked_state >>

\* insert: table_[mac] creates the entry with a default-constructed Endpoint if mac is no key
MacTable_insert_subscript(t) ==
  /\ thread[t].pc = "subscript"
  /\ table_' = [ table_ EXCEPT ![thread[t].obj] =
                   IF thread[t].mac \in DOMAIN @
                     THEN @
                     ELSE MacTable_insert(@, thread[t].mac, InvalidEp).table ]
  /\ thread' = [ thread EXCEPT ![t].pc = "assign" ]
  /\ UNCHANGED << mutex_, committed, unlocked_state >>

\* insert: ... = endpoint; return is_new;
MacTable_insert_assign(t) ==
  /\ thread[t].pc = "assign"
  /\ table_' = [ table_ EXCEPT ![thread[t].obj] =
                   MacTable_insert(@, thread[t].mac, thread[t].endpoint).table ]
  /\ thread' = [ thread EXCEPT ![t].ret = thread[t].is_new, ![t].pc = "unlock" ]
  /\ UNCHANGED << mutex_, committed, unlocked_state >>

\* remove: find, erase, return
MacTable_remove_erase(t) ==
  /\ thread[t].pc = "erase"
  /\ LET r == MacTable_remove(table_[thread[t].obj], thread[t].mac)
     IN  /\ table_' = [ table_ EXCEPT ![thread[t].obj] = r.table ]
         /\ thread' = [ thread EXCEPT ![t].ret = r.removed, ![t].pc = "unlock" ]
  /\ UNCHANGED << mutex_, committed, unlocked_state >>

\* clear: table_.clear();
MacTable_clear_all(t) ==
  /\ thread[t].pc = "clear"
  /\ table_' = [ table_ EXCEPT ![thread[t].obj] = MacTable_clear(@) ]
  /\ thread' = [ thread EXCEPT ![t].pc = "unlock" ]
  /\ UNCHANGED << mutex_, committed, unlocked_state >>

\* operator=(MacTable&& other): if (this != &other) fails, return *this;
MacTable_move_assign_self(t) ==
  /\ thread[t].pc = "lock"
  /\ thread[t].op = "move_assign"
  /\ thread[t].obj = thread[t].src
  /\ thread' = [ thread EXCEPT ![t] = [ IdleThread EXCEPT !.i = thread[t].i ] ]
  /\ UNCHANGED << table_, mutex_, committed, unlocked_state >>

\* operator=(MacTable&& other): table_ = std::move(other.table_); the moved-from
\* map is left in a valid but unspecified state (empty, or as it was)
MacTable_move_assign_take(t) ==
  /\ thread[t].pc = "move"
  /\ \E left \in { EmptyTable, table_[thread[t].src] } :
       table_' = [ table_ EXCEPT ![thread[t].obj] = table_[thread[t].src],
                                 ![thread[t].src] = left ]
  /\ thread' = [ thread EXCEPT ![t].pc = "move_clear" ]
  /\ UNCHANGED << mutex_, committed, unlocked_state >>

\* operator=(MacTable&& other): other.table_.clear();
MacTable_move_assign_clear(t) ==
  /\ thread[t].pc = "move_clear"
  /\ table_' = [ table_ EXCEPT ![thread[t].src] = MacTable_clear(@) ]
  /\ thread' = [ thread EXCEPT ![t].pc = "unlock" ]
  /\ UNCHANGED << mutex_, committed, unlocked_state >>

\* the body of a read operation: the result is computed from table_ as it is now
MacTable_read(t) ==
  /\ thread[t].pc = "read"
  /\ \E r \in MacTable_read_result(thread[t].op, table_[thread[t].obj], thread[t].mac) :
       thread' = [ thread EXCEPT ![t].ret = r, ![t].snap = committed[thread[t].obj],
                                 ![t].pc = "unlock" ]
  /\ UNCHANGED << table_, mutex_, committed, unlocked_state >>

\* the lock object goes out of scope and the call returns, which ends the
\* life of its locals; counting says whether the thread's program counts its
\* completed calls
MacTable_unlock(t, counting) ==
  /\ thread[t].pc = "unlock"
  /\ mutex_' = [ mutex_ EXCEPT ![thread[t].obj] =
                   [ writer |-> @.writer \ { t }, readers |-> @.readers \ { t } ] ]
  /\ committed' = IF thread[t].op \in ExclusiveOps
                    THEN [ committed EXCEPT ![thread[t].obj] = table_[thread[t].obj] ]
                    ELSE committed
  /\ thread' = [ thread EXCEPT ![t] =
                   [ IdleThread EXCEPT !.i = IF counting THEN thread[t].i + 1 ELSE thread[t].i ] ]
  /\ UNCHANGED << table_, unlocked_state >>

-----------------------------------------------------------------------------
(* The ThreadSafety test: writers insert disjoint keys while readers read *)

NumWriters == 2

KeysPerWriter == 2

NumReaders == 1

TestThreads ==
  { << "writer", n >> : n \in 0..(NumWriters - 1) }
    \cup { << "reader", n >> : n \in 0..(NumReaders - 1) }

\* "192.168.1." + std::to_string(t + 100)
TestAddress(n) ==
  CASE n = 0 -> "192.168.1.100"
    [] n = 1 -> "192.168.1.101"
    [] n = 2 -> "192.168.1.102"
    [] n = 3 -> "192.168.1.103"

\* bytes = { t, 0x11, 0x22, 0x33, 0x44, i }
TestMac(n, i) == << n, 17, 34, 51, 68, i >>

\* Endpoint endpoint("192.168.1." + std::to_string(t + 100), 8080 + i);
TestEndpoint(n, i) == Endpoint(TestAddress(n), 8080 + i)

\* the next call of a test thread: writer n inserts its i-th key; reader n looks
\* up the i-th key of writer n and then asks for all endpoints
ThreadSafetyCalls(t) ==
  LET k == thread[t].i
  IN  IF t[1] = "writer"
        THEN IF k < KeysPerWriter
               THEN { Call("insert", "table", "table", TestMac(t[2], k), TestEndpoint(t[2], k)) }
               ELSE {}
        ELSE IF k < 2 * KeysPerWriter
               THEN IF k % 2 = 0
                      THEN { Call("lookup", "table", "table", TestMac(t[2], k \div 2), InvalidEp) }
                      ELSE { Call("get_all_endpoints", "table", "table", ZeroMac, InvalidEp) }
               ELSE {}

ThreadSafetyInit == SwitchInit({}) /\ LockedInit(TestThreads) /\ PortInit /\ ValueInit

ThreadSafetyNext ==
  \/ \E t \in Threads : MacTable_call(t, ThreadSafetyCalls(t))
  \/ \E t \in Threads : MacTable_lock_unique(t)
  \/ \E t \in Threads : MacTable_lock_shared(t)
  \/ \E t \in Threads : MacTable_insert_find(t)
  \/ \E t \in Threads : MacTable_insert_subscript(t)
  \/ \E t \in Threads : MacTable_insert_assign(t)
  \/ \E t \in Threads : MacTable_read(t)
  \/ \E t \in Threads : MacTable_unlock(t, TRUE)

ThreadSafetySpec == ThreadSafetyInit /\ [][ThreadSafetyNext]_vars

-----------------------------------------------------------------------------
(* Two threads making arbitrary calls on two MacTable objects *)

MoveThreads == { << "thread", 1 >>, << "thread", 2 >> }

MoveEndpoints == { EpA, EpB }

\* the calls a thread may make
MoveCalls ==
  { Call("insert", o, o, MacA, e) : o \in Objects, e \in MoveEndpoints }
    \cup { Call(n, o, o, MacA, InvalidEp) : n \in { "remove", "clear" } \cup SharedOps, o \in Objects }
    \cup { Call("move_assign", o, s, ZeroMac, InvalidEp) : o \in Objects, s \in Objects }

MoveInit == SwitchInit({}) /\ LockedInit(MoveThreads) /\ PortInit /\ ValueInit

MoveNext ==
  \/ \E t \in Threads : MacTable_call(t, MoveCalls)
  \/ \E t \in Threads : MacTable_lock_unique(t)
  \/ \E t \in Threads : MacTable_lock_shared(t)
  \/ \E t \in Threads : MacTable_insert_find(t)
  \/ \E t \in Threads : MacTable_insert_subscript(t)
  \/ \E t \in Threads : MacTable_insert_assign(t)
  \/ \E t \in Threads : MacTable_remove_erase(t)
  \/ \E t \in Threads : MacTable_clear_all(t)
  \/ \E t \in Threads : MacTable_move_assign_self(t)
  \/ \E t \in Threads : MacTable_move_assign_take(t)
  \/ \E t \in Threads : MacTable_move_assign_clear(t)
  \/ \E t \in Threads : MacTable_read(t)
  \/ \E t \in Threads : MacTable_unlock(t, FALSE)

MoveSpec == MoveInit /\ [][MoveNext]_vars

-----------------------------------------------------------------------------
(* VPort: start, stop and the destructor, run by the thread that owns the   *)
(* Port, and the two forwarder threads each start() spawns                 *)

MaxStarts == 2

MaxArrivals == 2

\* the variables no member function of VPort touches
non_port_state ==
  << running, mac_table, pc, switch_locals, start_result, stop_pc, last_writer, count, op,
     table_hist, locked_state, value_state >>

\* faulty declaration order: the thread members come before the devices
VPort_members_threads_first ==
  << "tap_to_switch_thread_", "switch_to_tap_thread_", "running_", "tap_device_", "udp_socket_",
     "vswitch_endpoint_", "device_name_" >>

\* the data members of VPort in declaration order; they are destroyed in reverse
VPort_members ==
  << "tap_device_", "udp_socket_", "vswitch_endpoint_", "device_name_", "running_",
     "tap_to_switch_thread_", "switch_to_tap_thread_" >>

\* the forwarder a joining_thread member runs
MemberKind(member) ==
  IF member = "tap_to_switch_thread_" THEN "tap_to_switch" ELSE "switch_to_tap"

\* the descriptor a forwarder reads from: read_frame() on the tap, receive_from() on the socket
ReadFd(kind) == IF kind = "tap_to_switch" THEN "tap" ELSE "socket"

\* the descriptor a forwarder writes to: send_to() on the socket, write_frame() on the tap
WriteFd(kind) == IF kind = "tap_to_switch" THEN "socket" ELSE "tap"

\* faulty variant of the destructor and move assignment: the owned thread is detached
joining_thread_detach(h) == TRUE

\* if (thread_.joinable()) thread_.join(); returns once the owned thread, if any, has finished
joining_thread_join(h) == IF h = NoThread THEN TRUE ELSE workers[h] = "done"

\* the Endpoint create() builds from its vswitch_address and vswitch_port,
\* which it has checked to be non-empty and non-zero
vswitch_endpoint_ == Endpoint("127.0.0.1", 8080)

\* what arrives at a Port: on the tap a full Ethernet frame or a runt shorter
\* than a header, on the socket a frame the VSwitch forwarded
PortTraffic(fd) ==
  IF fd = "tap"
    THEN { EthernetFrame_serialize(Frame(MacB, MacA)), << 0, 17, 34 >> }
    ELSE { EthernetFrame_serialize(Frame(MacA, MacB)) }

\* a forwarder thread that has just been started
NoIo == [ buffer |-> << >>, read |-> << >>, wrote |-> << >> ]

\* every thread start() can have spawned
AllWorkers == { << k, g >> : k \in Kinds, g \in 1..(MaxStarts + 1) }

\* the owner of the Port calls start() or stop(), lets the Port go out of scope (the
\* destructor starts with stop()), or moves from the Port
VPort_call(name) ==
  /\ ctl.pc = "idle"
  /\ name = "start" => running_ \/ ctl.starts < MaxStarts
  /\ ctl' = [ ctl EXCEPT !.pc = CASE name = "start" -> "start_check"
                                 [] name = "move" -> "move"
                                 [] OTHER -> "stop_check",
                         !.op = name,
                         !.result = "none",
                         !.before = [ running |-> running_, workers |-> DOMAIN workers,
                                      handle |-> handle ] ]
  /\ UNCHANGED << running_, workers, handle, fds, pending, io, non_port_state >>

\* faulty variant of start(): the running_ check is missing
VPort_start_unchecked ==
  /\ ctl.pc = "start_check"
  /\ ctl' = [ ctl EXCEPT !.pc = "start_store" ]
  /\ UNCHANGED << running_, workers, handle, fds, pending, io, non_port_state >>

\* start(): if (running_.load()) return unexpected(VPortError::AlreadyRunning);
VPort_start_check ==
  /\ ctl.pc = "start_check"
  /\ ctl' = IF running_
              THEN [ ctl EXCEPT !.pc = "idle", !.result = "AlreadyRunning" ]
              ELSE [ ctl EXCEPT !.pc = "start_store" ]
  /\ UNCHANGED << running_, workers, handle, fds, pending, io, non_port_state >>

\* start(): running_.store(true);
VPort_start_store ==
  /\ ctl.pc = "start_store"
  /\ running_' = TRUE
  /\ ctl' = [ ctl EXCEPT !.pc = "spawn", !.kind = "tap_to_switch", !.starts = @ + 1 ]
  /\ UNCHANGED << workers, handle, fds, pending, io, non_port_state >>

\* start(): joining_thread([this]() { forward_...(); }) starts a new thread
VPort_start_spawn ==
  /\ ctl.pc = "spawn"
  /\ workers' = [ w \in (DOMAIN workers) \cup { << ctl.kind, ctl.starts >> } |->
                    IF w \in DOMAIN workers THEN workers[w] ELSE "loop" ]
  /\ io' = [ w \in (DOMAIN io) \cup { << ctl.kind, ctl.starts >> } |->
               IF w \in DOMAIN io THEN io[w] ELSE NoIo ]
  /\ ctl' = [ ctl EXCEPT !.pc = "assign" ]
  /\ UNCHANGED << running_, handle, fds, pending, non_port_state >>

\* start(): ..._thread_ = <the new joining_thread>; the move assignment first
\* joins the thread the member owned; after the second one: return success
VPort_start_assign ==
  /\ ctl.pc = "assign"
  /\ joining_thread_join(handle[ctl.kind])
  /\ handle' = [ handle EXCEPT ![ctl.kind] = << ctl.kind, ctl.starts >> ]
  /\ ctl' = IF ctl.kind = "tap_to_switch"
              THEN [ ctl EXCEPT !.pc = "spawn", !.kind = "switch_to_tap" ]
              ELSE [ ctl EXCEPT !.pc = "idle", !.result = "ok" ]
  /\ UNCHANGED << running_, workers, fds, pending, io, non_port_state >>

\* VPort(VPort&& other) and operator=(VPort&& other) as other undergoes them: the tap
\* device, the socket and both thread handles are moved out of other (a moved-from
\* FileDescriptor holds -1, a moved-from joining_thread owns no thread), and running_
\* of other is only read
VPort_move_from ==
  /\ ctl.pc = "move"
  /\ fds' = [ tap |-> FALSE, socket |-> FALSE ]
  /\ handle' = [ k \in Kinds |-> NoThread ]
  /\ ctl' = [ ctl EXCEPT !.pc = "idle", !.result = "moved" ]
  /\ UNCHANGED << running_, workers, pending, io, non_port_state >>

\* faulty variant of stop(): it returns without clearing the flag
VPort_stop_store_skipped ==
  /\ ctl.pc = "stop_store"
  /\ ctl' = [ ctl EXCEPT !.pc = "idle", !.result = "void" ]
  /\ UNCHANGED << running_, workers, handle, fds, pending, io, non_port_state >>

\* where stop() returns to: its caller, or the destructor that called it
VPort_stop_return ==
  IF ctl.op = "destroy"
    THEN [ ctl EXCEPT !.pc = "destroy", !.member = Len(VPort_members) ]
    ELSE [ ctl EXCEPT !.pc = "idle", !.result = "void" ]

\* stop(): if (!running_.load()) return;
VPort_stop_check ==
  /\ ctl.pc = "stop_check"
  /\ ctl' = IF running_ THEN [ ctl EXCEPT !.pc = "stop_store" ] ELSE VPort_stop_return
  /\ UNCHANGED << running_, workers, handle, fds, pending, io, non_port_state >>

\* stop(): running_.store(false); and return, nothing is joined or closed here
VPort_stop_store ==
  /\ ctl.pc = "stop_store"
  /\ running_' = FALSE
  /\ ctl' = VPort_stop_return
  /\ UNCHANGED << workers, handle, fds, pending, io, non_port_state >>

\* ~VPort() after its body: the members are destroyed in reverse declaration
\* order; ~joining_thread joins, ~TapDevice and ~UdpSocket close the descriptor
VPort_destroy_member ==
  /\ ctl.pc = "destroy"
  /\ LET member == VPort_members[ctl.member]
     IN  /\ member \in { "tap_to_switch_thread_", "switch_to_tap_thread_" }
               => joining_thread_join(handle[MemberKind(member)])
         /\ handle' = IF member \in { "tap_to_switch_thread_", "switch_to_tap_thread_" }
                        THEN [ handle EXCEPT ![MemberKind(member)] = NoThread ]
                        ELSE handle
         /\ fds' = CASE member = "tap_device_" -> [ fds EXCEPT !.tap = FALSE ]
                     [] member = "udp_socket_" -> [ fds EXCEPT !.socket = FALSE ]
                     [] OTHER -> fds
  /\ ctl' = [ ctl EXCEPT !.member = @ - 1, !.pc = IF ctl.member = 1 THEN "destroyed" ELSE "destroy" ]
  /\ UNCHANGED << running_, workers, pending, io, non_port_state >>

\* forward_tap_to_switch / forward_switch_to_tap: while (running_.load())
forward_loop(w) ==
  /\ workers[w] = "loop"
  /\ workers' = [ workers EXCEPT ![w] = IF running_ THEN "read" ELSE "done" ]
  /\ UNCHANGED << running_, handle, fds, pending, io, ctl, non_port_state >>

\* read_frame() / receive_from() returns the next frame or datagram; it blocks
\* until there is one
forward_read(w) ==
  /\ workers[w] = "read"
  /\ fds[ReadFd(w[1])]
  /\ pending[ReadFd(w[1])] /= << >>
  /\ io' = [ io EXCEPT ![w].buffer = Head(pending[ReadFd(w[1])]),
                       ![w].read = Append(@, Head(pending[ReadFd(w[1])])) ]
  /\ pending' = [ pending EXCEPT ![ReadFd(w[1])] = Tail(@) ]
  /\ workers' = [ workers EXCEPT ![w] = "write" ]
  /\ UNCHANGED << running_, handle, fds, ctl, non_port_state >>

\* read_frame() / receive_from() returns an error: at once on a descriptor the
\* Port no longer holds, at any time for a cause outside the program
forward_read_error(w) ==
  /\ workers[w] = "read"
  /\ workers' = [ workers EXCEPT ![w] = "read_error" ]
  /\ UNCHANGED << running_, handle, fds, pending, io, ctl, non_port_state >>

\* faulty variant of the write: the frame is parsed and serialized again before it is sent
forward_write_reserialized(w) ==
  /\ workers[w] = "write"
  /\ fds[WriteFd(w[1])]
  /\ io' = [ io EXCEPT ![w].wrote =
               Append(@, [ data  |-> EthernetFrame_serialize(EthernetFrame_parse(io[w].buffer)),
                           to    |-> IF w[1] = "tap_to_switch" THEN vswitch_endpoint_ ELSE "tap",
                           frame |-> Len(io[w].read) ]) ]
  /\ workers' = [ workers EXCEPT ![w] = "loop" ]
  /\ UNCHANGED << running_, handle, fds, pending, ctl, non_port_state >>

\* udp_socket_.send_to(frame_data, vswitch_endpoint_) / tap_device_.write_frame(frame_data)
\* succeeds, then log_frame and the next iteration; the history notes which
\* frame read by this thread the bytes written came from
forward_write(w) ==
  /\ workers[w] = "write"
  /\ fds[WriteFd(w[1])]
  /\ io' = [ io EXCEPT ![w].wrote =
               Append(@, [ data  |-> io[w].buffer,
                           to    |-> IF w[1] = "tap_to_switch" THEN vswitch_endpoint_ ELSE "tap",
                           frame |-> Len(io[w].read) ]) ]
  /\ workers' = [ workers EXCEPT ![w] = "loop" ]
  /\ UNCHANGED << running_, handle, fds, pending, ctl, non_port_state >>

\* send_to() / write_frame() returns an error
forward_write_error(w) ==
  /\ workers[w] = "write"
  /\ workers' = [ workers EXCEPT ![w] = "write_error" ]
  /\ UNCHANGED << running_, handle, fds, pending, io, ctl, non_port_state >>

\* faulty variant of the error branches: the forwarder gives up
forward_break(w) ==
  /\ workers[w] \in { "read_error", "write_error" }
  /\ workers' = [ workers EXCEPT ![w] = "done" ]
  /\ UNCHANGED << running_, handle, fds, pending, io, ctl, non_port_state >>

\* the error branches: std::cerr << ...; continue;
forward_continue(w) ==
  /\ workers[w] \in { "read_error", "write_error" }
  /\ workers' = [ workers EXCEPT ![w] = "loop" ]
  /\ UNCHANGED << running_, handle, fds, pending, io, ctl, non_port_state >>

\* a frame appears on the tap device, or a datagram of the VSwitch on the socket
Arrive(fd) ==
  /\ pending.arrived < MaxArrivals
  /\ \E data \in PortTraffic(fd) :
       pending' = [ pending EXCEPT ![fd] = Append(@, data), !.arrived = @ + 1 ]
  /\ UNCHANGED << running_, workers, handle, fds, io, ctl, non_port_state >>

PortSpecInit == SwitchInit({}) /\ LockedInit({}) /\ PortInit /\ ValueInit

PortNext ==
  \/ \E name \in { "start", "stop", "destroy" } : VPort_call(name)
  \/ VPort_start_check
  \/ VPort_start_store
  \/ VPort_start_spawn
  \/ VPort_start_assign
  \/ VPort_stop_check
  \/ VPort_stop_store
  \/ VPort_destroy_member
  \/ \E w \in DOMAIN workers : forward_loop(w)
  \/ \E w \in DOMAIN workers : forward_read(w)
  \/ \E w \in DOMAIN workers : forward_read_error(w)
  \/ \E w \in DOMAIN workers : forward_write(w)
  \/ \E w \in DOMAIN workers : forward_write_error(w)
  \/ \E w \in DOMAIN workers : forward_continue(w)
  \/ \E fd \in { "tap", "socket" } : Arrive(fd)

PortSpec == PortSpecInit /\ [][PortNext]_vars

\* a step of the owner inside a member function it has called
VPortStep ==
  \/ VPort_start_check
  \/ VPort_start_store
  \/ VPort_start_spawn
  \/ VPort_start_assign
  \/ VPort_stop_check
  \/ VPort_stop_store
  \/ VPort_destroy_member

\* a step of the forwarder thread w that needs nothing but the processor: an
\* I/O error is an event the scheduler does not owe the thread
ForwarderStep(w) ==
  /\ w \in DOMAIN workers
  /\ forward_loop(w) \/ forward_read(w) \/ forward_write(w) \/ forward_continue(w)

\* every thread that can take a step is scheduled eventually; whether the
\* owner calls a member function and whether traffic arrives is left open
PortFairSpec ==
  /\ PortSpecInit
  /\ [][PortNext]_vars
  /\ WF_vars(VPortStep)
  /\ \A w \in AllWorkers : WF_vars(ForwarderStep(w))

-----------------------------------------------------------------------------
(* LifecycleSpec: a VSwitch and a VPort without traffic, each started and   *)
(* stopped by its owner, the VPort also moved from                          *)

LifecycleNext ==
  \/ \E t \in Callers : VSwitch_start_check(t)
  \/ \E t \in Callers : VSwitch_start_store(t)
  \/ \E t \in Callers : VSwitch_start_loop(t)
  \/ \E t \in Callers : VSwitch_start_receive_error(t)
  \/ VSwitch_stop_check
  \/ VSwitch_stop_store
  \/ \E name \in { "start", "stop", "move" } : VPort_call(name)
  \/ VPort_start_check
  \/ VPort_start_store
  \/ VPort_start_spawn
  \/ VPort_start_assign
  \/ VPort_stop_check
  \/ VPort_stop_store
  \/ VPort_move_from
  \/ \E w \in DOMAIN workers : forward_loop(w)
  \/ \E w \in DOMAIN workers : forward_read_error(w)
  \/ \E w \in DOMAIN workers : forward_continue(w)

LifecycleSpec == Init /\ [][LifecycleNext]_vars

-----------------------------------------------------------------------------
(* ValueSpec: the functions without shared state.  A behaviour applies one  *)
(* function once, to arguments chosen from the sets below.                 *)

\* the variables no application of these functions touches
non_value_state ==
  << running, mac_table, pc, switch_locals, start_result, stop_pc, last_writer, count, op,
     table_hist, locked_state, port_state, fd_state >>

\* longest payload of the frames and byte strings the codec is applied to
MaxPayload == 2

Payloads == UNION { [ 1..n -> { 0, 255 } ] : n \in 0..MaxPayload }

\* EthernetFrame(dst, src, ethertype, payload): ethertype is a uint16_t
Frames ==
  { [ dst_mac |-> d, src_mac |-> s, ethertype |-> e, payload |-> p ] :
      d \in Macs, s \in Macs, e \in { 0, 255, 256, 2048, 34525, 65535 }, p \in Payloads }

\* std::vector<uint8_t>: byte strings of every length from 0 to 14 + MaxPayload
ByteStrings ==
  UNION { { SubSeq(d \o s \o << hi, lo >> \o p, 1, n) : n \in 0..(ETHERNET_HEADER_SIZE + Len(p)) } :
            d \in { BroadcastMac, MacA }, s \in { ZeroMac, MacB }, hi \in { 0, 134, 255 },
            lo \in { 0, 134, 255 }, p \in Payloads }

\* std::string arguments of from_string: 17 characters with any two sample characters as
\* the first byte, any sample separators in the first two separator positions, and the
\* shorter and longer strings
MacStrings ==
  LET SampleChars == { "0", "1", "a", "F", "g", " ", "-", "+", "x", ":" }
      Str(c1, c2, s1, s2, g) ==
        << c1, c2, s1 >> \o g \o << s2, "3", "3", s1, "4", "4", s1, "5", "5", s1, "6", "6" >>
      Full == { Str(c1, c2, s1, s2, g) :
                  c1 \in SampleChars, c2 \in SampleChars, s1 \in { ":", "-", "." },
                  s2 \in { ":", "-", "." }, g \in { << "2", "2" >>, << "2", "g" >> } }
      Good == Str("0", "0", ":", ":", << "2", "2" >>)
  IN  Full \cup { SubSeq(Good, 1, n) : n \in 0..16 } \cup { Good \o << ":", "7", "7" >> }

\* faulty variant of create: the tap device is opened before the arguments are validated
VPort_create_acquire_first(vswitch_address, vswitch_port, tap_ok, socket_ok) ==
  IF ~tap_ok
    THEN [ result |-> "TapDeviceCreationFailed", calls |-> << "TapDevice::create" >> ]
    ELSE IF vswitch_address = "" \/ vswitch_port = 0
      THEN [ result |-> "InvalidVSwitchEndpoint", calls |-> << "TapDevice::create" >> ]
      ELSE IF ~socket_ok
        THEN [ result |-> "SocketCreationFailed",
               calls  |-> << "TapDevice::create", "UdpSocket::create" >> ]
        ELSE [ result |-> "VPort", calls |-> << "TapDevice::create", "UdpSocket::create" >> ]

\* VPort::create: what it returns and which acquisitions it attempted, given whether
\* TapDevice::create and UdpSocket::create succeed when called
VPort_create(vswitch_address, vswitch_port, tap_ok, socket_ok) ==
  IF vswitch_address = "" \/ vswitch_port = 0
    THEN [ result |-> "InvalidVSwitchEndpoint", calls |-> << >> ]
    ELSE IF ~tap_ok
      THEN [ result |-> "TapDeviceCreationFailed", calls |-> << "TapDevice::create" >> ]
      ELSE IF ~socket_ok
        THEN [ result |-> "SocketCreationFailed",
               calls  |-> << "TapDevice::create", "UdpSocket::create" >> ]
        ELSE [ result |-> "VPort", calls |-> << "TapDevice::create", "UdpSocket::create" >> ]

Apply_parse(data) ==
  /\ applied.name = "none"
  /\ applied' = [ name |-> "parse", data |-> data ]
  /\ returned' = EthernetFrame_parse(data)
  /\ UNCHANGED non_value_state

Apply_serialize(f) ==
  /\ applied.name = "none"
  /\ applied' = [ name |-> "serialize", frame |-> f ]
  /\ returned' = EthernetFrame_serialize(f)
  /\ UNCHANGED non_value_state

Apply_from_string(str) ==
  /\ applied.name = "none"
  /\ applied' = [ name |-> "from_string", str |-> str ]
  /\ returned' = MacAddress_from_string(str)
  /\ UNCHANGED non_value_state

Apply_create(vswitch_address, vswitch_port, tap_ok, socket_ok) ==
  /\ applied.name = "none"
  /\ applied' = [ name |-> "create", vswitch_address |-> vswitch_address,
                  vswitch_port |-> vswitch_port ]
  /\ returned' = VPort_create(vswitch_address, vswitch_port, tap_ok, socket_ok)
  /\ UNCHANGED non_value_state

ValueSpecInit == SwitchInit({}) /\ LockedInit({}) /\ PortInit /\ ValueInit

ValueNext ==
  \/ \E data \in ByteStrings : Apply_parse(data)
  \/ \E f \in Frames : Apply_serialize(f)
  \/ \E str \in MacStrings : Apply_from_string(str)
  \/ \E a \in { "", "127.0.0.1", "localhost" }, p \in { 0, 1, 8080, 65535 },
        tap_ok \in BOOLEAN, socket_ok \in BOOLEAN : Apply_create(a, p, tap_ok, socket_ok)

ValueSpec == ValueSpecInit /\ [][ValueNext]_vars

-----------------------------------------------------------------------------
(* FileDescriptor: objects owning descriptors *)

\* number of descriptors the program opens
MaxOpens == 3

FileDescriptors == DOMAIN fd_

\* the variables no FileDescriptor operation touches
non_fd_state ==
  << running, mac_table, pc, switch_locals, start_result, stop_pc, last_writer, count, op,
     table_hist, locked_state, port_state, applied, returned >>

\* is_valid(): return fd_ >= 0;
FileDescriptor_is_valid(fd) == fd >= 0

\* faulty variant of the moves: other.fd_ is left as it was
FileDescriptor_moved_from_unchanged(fd) == fd

\* the move constructor and the move assignment: other.fd_ = -1;
FileDescriptor_moved_from(fd) == -1

\* close(): if (is_valid()) { ::close(fd_); fd_ = -1; } as it acts on the
\* history of ::close calls
FileDescriptor_close_calls(fd) ==
  IF FileDescriptor_is_valid(fd) THEN [ closes EXCEPT ![fd] = @ + 1 ] ELSE closes

\* the program opens a descriptor (pipe(), ::open, ::socket) and holds it as an int
sys_open ==
  /\ Cardinality(DOMAIN closes) < MaxOpens
  /\ LET fd == 3 + Cardinality(DOMAIN closes)
     IN  /\ closes' = [ d \in (DOMAIN closes) \cup { fd } |-> IF d = fd THEN 0 ELSE closes[d] ]
         /\ raw' = raw \cup { fd }
  /\ UNCHANGED << fd_, alive, non_fd_state >>

\* FileDescriptor() and FileDescriptor(int fd): fd is -1 or a descriptor the
\* program holds, which the object owns from now on
FileDescriptor_construct(w, fd) ==
  /\ w \notin alive
  /\ alive' = alive \cup { w }
  /\ fd_' = [ fd_ EXCEPT ![w] = fd ]
  /\ raw' = raw \ { fd }
  /\ UNCHANGED << closes, non_fd_state >>

\* FileDescriptor(FileDescriptor&& other)
FileDescriptor_move_construct(w, other) ==
  /\ w \notin alive
  /\ other \in alive
  /\ alive' = alive \cup { w }
  /\ fd_' = [ fd_ EXCEPT ![w] = fd_[other], ![other] = FileDescriptor_moved_from(fd_[other]) ]
  /\ UNCHANGED << closes, raw, non_fd_state >>

\* operator=(FileDescriptor&& other): if (this != &other) { close(); fd_ = other.fd_; other.fd_ = -1; }
FileDescriptor_move_assign(w, other) ==
  /\ w \in alive
  /\ other \in alive
  /\ IF w = other
       THEN UNCHANGED << fd_, closes >>
       ELSE /\ closes' = FileDescriptor_close_calls(fd_[w])
            /\ fd_' = [ fd_ EXCEPT ![w] = fd_[other],
                                   ![other] = FileDescriptor_moved_from(fd_[other]) ]
  /\ UNCHANGED << alive, raw, non_fd_state >>

\* close()
FileDescriptor_close(w) ==
  /\ w \in alive
  /\ closes' = FileDescriptor_close_calls(fd_[w])
  /\ fd_' = [ fd_ EXCEPT ![w] = -1 ]
  /\ UNCHANGED << alive, raw, non_fd_state >>

\* release(): int fd = fd_; fd_ = -1; return fd; the program now holds fd
FileDescriptor_release(w) ==
  /\ w \in alive
  /\ raw' = IF FileDescriptor_is_valid(fd_[w]) THEN raw \cup { fd_[w] } ELSE raw
  /\ fd_' = [ fd_ EXCEPT ![w] = -1 ]
  /\ UNCHANGED << alive, closes, non_fd_state >>

\* reset(int fd = -1): close(); fd_ = fd; fd is -1 or a descriptor the program holds
FileDescriptor_reset(w, fd) ==
  /\ w \in alive
  /\ closes' = FileDescriptor_close_calls(fd_[w])
  /\ fd_' = [ fd_ EXCEPT ![w] = fd ]
  /\ raw' = raw \ { fd }
  /\ UNCHANGED << alive, non_fd_state >>

\* ~FileDescriptor(): close(); and the life of the object ends
FileDescriptor_destroy(w) ==
  /\ w \in alive
  /\ closes' = FileDescriptor_close_calls(fd_[w])
  /\ fd_' = [ fd_ EXCEPT ![w] = -1 ]
  /\ alive' = alive \ { w }
  /\ UNCHANGED << raw, non_fd_state >>

FdNext ==
  \/ sys_open
  \/ \E w \in FileDescriptors, fd \in raw \cup { -1 } : FileDescriptor_construct(w, fd)
  \/ \E w, other \in FileDescriptors : FileDescriptor_move_construct(w, other)
  \/ \E w, other \in FileDescriptors : FileDescriptor_move_assign(w, other)
  \/ \E w \in FileDescriptors : FileDescriptor_close(w)
  \/ \E w \in FileDescriptors : FileDescriptor_release(w)
  \/ \E w \in FileDescriptors, fd \in raw \cup { -1 } : FileDescriptor_reset(w, fd)
  \/ \E w \in FileDescriptors : FileDescriptor_destroy(w)

FdSpec == ValueSpecInit /\ [][FdNext]_vars

-----------------------------------------------------------------------------
(* Properties of the per-frame algorithm (checked under Spec) *)

\* the state in which process_frame has just finished with the datagram of caller t
Processed(t) == pc[t] = "ret"

\* the one datagram a unicast forward of t's frame hands to the socket
Forwarded(t, endpoint) == << [ data |-> frame_data(t), to |-> endpoint ] >>

\* C1: a datagram whose destination MAC is a key of the table once its source
\* has been learned causes exactly one send, of the received bytes unchanged, to
\* the endpoint bound to that destination MAC, and no send to any other endpoint.
C1_UnicastDispatch ==
  \A t \in Callers :
    Processed(t) /\ frame(t).dst_mac \in DOMAIN mac_table
      => sent[t] = Forwarded(t, mac_table[frame(t).dst_mac])

C1_Witness ==
  \E t \in Callers :
    /\ Processed(t)
    /\ Len(frame_data(t)) > ETHERNET_HEADER_SIZE
    /\ frame(t).dst_mac \in DOMAIN mac_table
    /\ frame(t).dst_mac /= frame(t).src_mac
    /\ mac_table[frame(t).dst_mac] /= sender_endpoint(t)
    /\ MacTable_size(mac_table) >= 3
    /\ sent[t] = Forwarded(t, mac_table[frame(t).dst_mac])

\* t's frame was flooded: its destination is the broadcast address and no key
Flooded(t) ==
  /\ Processed(t)
  /\ frame(t).dst_mac = BroadcastMac
  /\ BroadcastMac \notin DOMAIN mac_table

\* C2: a datagram addressed to ff:ff:ff:ff:ff:ff, that address not being a key,
\* is sent once for every table entry whose MAC differs from the frame's source
\* MAC, to that entry's endpoint, and to no other endpoint.
C2_BroadcastFlood ==
  \A t \in Callers :
    Flooded(t)
      => \E o \in IterationOrders((DOMAIN mac_table) \ { frame(t).src_mac }) :
           sent[t] = [ i \in 1..Len(o) |-> [ data |-> frame_data(t), to |-> mac_table[o[i]] ] ]

C2_Witness ==
  \E t \in Callers :
    /\ Flooded(t)
    /\ Len(sent[t]) = 2
    /\ sent[t][1].to /= sent[t][2].to
    /\ \A i \in 1..2 : sent[t][i].to /= sender_endpoint(t)

C5_LastWriterWins ==
  \A t \in Callers :
    Processed(t)
      => /\ MacTable_lookup(mac_table, frame(t).src_mac) = Some(sender_endpoint(t))
         /\ last_writer[frame(t).dst_mac].has_value
              => sent[t] = Forwarded(t, last_writer[frame(t).dst_mac].value)

C5_Witness ==
  \E t \in Callers :
    /\ Processed(t)
    /\ before[t].has_value
    /\ before[t].value /= sender_endpoint(t)
    /\ frame(t).dst_mac = frame(t).src_mac
    /\ sent[t] = Forwarded(t, sender_endpoint(t))

\* C6 as claimed: a datagram shorter than 14 bytes is parsed as the zero frame,
\* the zero MAC is bound to its sender, and nothing is sent in response to it.
C6_ShortDatagramDiscarded ==
  \A t \in Callers :
    Processed(t) /\ Len(frame_data(t)) < ETHERNET_HEADER_SIZE
      => /\ frame(t) = DefaultFrame
         /\ MacTable_lookup(mac_table, ZeroMac) = Some(sender_endpoint(t))
         /\ sent[t] = << >>

\* C7: when the broadcast address is itself a key of the table, a frame
\* addressed to it is sent only to the one endpoint bound to that key and is
\* not flooded.
C7_LookupBeforeBroadcast ==
  \A t \in Callers :
    /\ Processed(t)
    /\ frame(t).dst_mac = BroadcastMac
    /\ BroadcastMac \in DOMAIN mac_table
    => sent[t] = Forwarded(t, mac_table[BroadcastMac])

C7_Witness ==
  \E t \in Callers :
    /\ Processed(t)
    /\ frame(t).dst_mac = BroadcastMac
    /\ frame(t).src_mac /= BroadcastMac
    /\ BroadcastMac \in DOMAIN mac_table
    /\ MacTable_size(mac_table) >= 3
    /\ mac_table[BroadcastMac] /= sender_endpoint(t)
    /\ Len(sent[t]) = 1

\* C8: datagrams are learned and dispatched strictly in arrival order: the
\* source binding of a datagram is inserted before its destination is looked
\* up, every send belongs to the datagram received last, and learning and all
\* sends of datagram k are complete before datagram k+1 is learned.
C8_ArrivalOrder ==
  /\ count.dispatched <= count.looked_up
  /\ count.looked_up <= count.learned
  /\ count.learned <= count.received
  /\ count.received <= count.dispatched + 1
  /\ \A t \in Callers :
       /\ pc[t] = "learn" => count.dispatched = count.received - 1 /\ sent[t] = << >>
       /\ pc[t] \in { "dispatch", "fanout", "ret" }
            => /\ count.looked_up = count.received
               /\ MacTable_lookup(mac_table, frame(t).src_mac) = Some(sender_endpoint(t))
       /\ sent[t] /= << >> => count.looked_up = count.received
       /\ all_endpoints[t] /= << >> => pc[t] = "fanout"

C8_Witness ==
  \E t \in Callers :
    /\ count.received = 3
    /\ count.dispatched = 2
    /\ pc[t] = "fanout"
    /\ sent[t] /= << >>
    /\ all_endpoints[t] /= << >>

-----------------------------------------------------------------------------
(* Properties of start() under concurrent callers (checked under RaceSpec) *)

\* the positions of start() inside its receive loop
InReceiveLoop == { "loop", "recv", "learn", "lookup", "dispatch", "fanout", "ret" }

\* C9 as claimed: of two threads calling start() on one VSwitch at most one is
\* ever inside the receive loop.
C9_SingleReceiveLoop ==
  Cardinality({ t \in Callers : pc[t] \in InReceiveLoop }) <= 1

-----------------------------------------------------------------------------
(* Properties of MacTable (checked under TableSpec) *)

\* C10: insert(m, e) returns true iff m was no key just before the call;
\* afterwards lookup(m) is e, every other key is bound as before, and size has
\* grown by one exactly when true was returned.
C10_InsertContract ==
  op.name = "insert"
    => /\ op.ret_bool = (op.mac \notin DOMAIN op.before)
       /\ MacTable_lookup(mac_table, op.mac) = Some(op.endpoint)
       /\ \A m \in Macs \ { op.mac } :
            MacTable_lookup(mac_table, m) = MacTable_lookup(op.before, m)
       /\ MacTable_size(mac_table)
            = MacTable_size(op.before) + (IF op.ret_bool THEN 1 ELSE 0)

C10_Witness ==
  /\ op.name = "insert"
  /\ ~op.ret_bool
  /\ op.before[op.mac] /= op.endpoint
  /\ mac_table[op.mac] = op.endpoint
  /\ MacTable_size(mac_table) >= 2

\* C11 as claimed: only the first insert of a MAC ever made on a table returns
\* true; every later insert of that MAC returns false, whatever the endpoint
\* and whatever other operations were made in between.
C11_LearnOnNew ==
  op.name = "insert" => op.ret_bool = inserts.first

\* C11: insert(m, e) returns true exactly when no insert of m has been made
\* since m was last removed or the table last cleared (or since construction);
\* every other insert of m returns false, whether e is equal or different.
C11_LearnOnNewSinceErase ==
  op.name = "insert" => op.ret_bool = inserts.fresh

C11_Witness ==
  /\ op.name = "insert"
  /\ op.ret_bool
  /\ inserts.fresh
  /\ ~inserts.first
  /\ MacTable_size(mac_table) >= 2

\* number of positions of the vector v that hold the endpoint e
Occurrences(v, e) == Cardinality({ i \in 1..Len(v) : v[i] = e })

\* C12 as claimed: get_all_endpoints_except(m) on a table T with key m returns
\* |T|-1 endpoints, none of them T[m], and the endpoint of every other entry
\* exactly once; for m not in T it returns |T| endpoints, one per entry.
C12_TableExclusion ==
  op.name = "get_all_endpoints_except"
    => /\ Len(ret_vec) = MacTable_size(mac_table) - (IF op.mac \in DOMAIN mac_table THEN 1 ELSE 0)
       /\ op.mac \in DOMAIN mac_table => Occurrences(ret_vec, mac_table[op.mac]) = 0
       /\ \A k \in (DOMAIN mac_table) \ { op.mac } : Occurrences(ret_vec, mac_table[k]) = 1

\* C12: get_all_endpoints_except(m) returns one endpoint per entry whose key
\* is not m: its length is |T|-1 when m is a key and |T| otherwise, and every
\* endpoint occurs in it as many times as there are keys other than m bound to
\* it (so T[m] occurs exactly when another key is bound to the same endpoint).
C12_TableExclusionByKey ==
  op.name = "get_all_endpoints_except"
    => /\ Len(ret_vec) = MacTable_size(mac_table) - (IF op.mac \in DOMAIN mac_table THEN 1 ELSE 0)
       /\ \A e \in TableEndpoints :
            Occurrences(ret_vec, e)
              = Cardinality({ k \in (DOMAIN mac_table) \ { op.mac } : mac_table[k] = e })

C12_Witness ==
  /\ op.name = "get_all_endpoints_except"
  /\ op.mac \in DOMAIN mac_table
  /\ MacTable_size(mac_table) = 4
  /\ Occurrences(ret_vec, mac_table[op.mac]) = 1
  /\ \E e \in TableEndpoints : Occurrences(ret_vec, e) = 2

\* C13 as claimed: every entry of the table holds a valid endpoint, and an
\* insert with an invalid endpoint leaves the table as it was.
C13_ValidEntries ==
  /\ \A m \in DOMAIN mac_table : Endpoint_is_valid(mac_table[m])
  /\ op.name = "insert" /\ ~Endpoint_is_valid(op.endpoint) => mac_table = op.before

-----------------------------------------------------------------------------
(* Properties of MacTable under concurrent callers *)

\* the table the ThreadSafety test must end with: every key of every writer
\* bound to the endpoint that writer gave
TestTable ==
  [ m \in { TestMac(n, i) : n \in 0..(NumWriters - 1), i \in 0..(KeysPerWriter - 1) }
      |-> TestEndpoint(m[1], m[6]) ]

\* every thread of the test has made all its calls
TestDone == \A t \in Threads : thread[t].pc = "idle" /\ ThreadSafetyCalls(t) = {}

\* the thread t is about to return the result of a read
HasRead(t) == thread[t].op \in SharedOps /\ thread[t].pc = "unlock"

\* C14 (checked under ThreadSafetySpec): when all writers and readers are done
\* the table has NumWriters * KeysPerWriter entries, each key bound to the
\* endpoint its writer gave; and every read returns what the read would
\* return on the table as it stood when an insert was last completed, a table
\* that holds only completely inserted entries.
C14_ConcurrencySafety ==
  /\ TestDone => /\ MacTable_size(table_["table"]) = NumWriters * KeysPerWriter
                 /\ table_["table"] = TestTable
  /\ \A t \in Threads :
       HasRead(t)
         => /\ thread[t].ret \in MacTable_read_result(thread[t].op, thread[t].snap, thread[t].mac)
            /\ \A m \in DOMAIN thread[t].snap :
                 m \in DOMAIN TestTable /\ thread[t].snap[m] = TestTable[m]

C14_Witness ==
  /\ \E t \in Threads :
       /\ HasRead(t)
       /\ thread[t].op = "get_all_endpoints"
       /\ thread[t].i = 2 * KeysPerWriter - 1
       /\ Len(thread[t].ret) > 0
       /\ Len(thread[t].ret) < NumWriters * KeysPerWriter
  /\ \E t \in Threads : thread[t].pc = "lock" /\ thread[t].op = "insert"
  /\ \E t \in Threads : t[1] = "writer" /\ ThreadSafetyCalls(t) = {}

\* the thread t is inside an operation that uses the map of the object o
Inside(t, o) ==
  \/ thread[t].pc \notin { "idle", "lock" } /\ thread[t].obj = o
  \/ thread[t].pc \in { "move", "move_clear" } /\ thread[t].src = o

\* the thread t is inside an operation that modifies or replaces the map of o
Modifying(t, o) == Inside(t, o) /\ thread[t].op \in ExclusiveOps

\* C15 as claimed (checked under MoveSpec): no thread is inside an operation
\* that modifies or replaces the map of a MacTable (insert, remove, clear,
\* move-assignment) while another thread is inside an operation on that map.
C15_ReaderWriterDiscipline ==
  \A o \in Objects : \A t1, t2 \in Threads :
    t1 /= t2 => ~(Modifying(t1, o) /\ Inside(t2, o))

\* two threads are inside read operations of one MacTable at the same time
C15_ReadersTogether ==
  \E o \in Objects : \E t1, t2 \in Threads :
    /\ t1 /= t2
    /\ thread[t1].pc = "read" /\ thread[t1].obj = o
    /\ thread[t2].pc = "read" /\ thread[t2].obj = o

-----------------------------------------------------------------------------
(* Properties of VPort (checked under PortSpec and PortFairSpec) *)

\* no thread spawned by start() is still executing its forwarder
NoWorkerRunning == \A w \in DOMAIN workers : workers[w] = "done"

\* the threads spawned since the current call of the owner began
Spawned == (DOMAIN workers) \ ctl.before.workers

\* C16: a start() called on a Port that is not running has, when it returns,
\* spawned exactly one tap-to-switch and one switch-to-tap thread, which the
\* two joining_thread members now own, and returns success with running_ true;
\* a start() called on a running Port spawns no thread at any point, leaves
\* running_ and the two joining_thread members as they were and returns
\* AlreadyRunning.
C16_StartContract ==
  ctl.op = "start"
    => IF ctl.before.running
         THEN /\ Spawned = {}
              /\ handle = ctl.before.handle
              /\ running_
              /\ ctl.pc = "idle" => ctl.result = "AlreadyRunning"
         ELSE ctl.pc = "idle"
                => /\ ctl.result = "ok"
                   /\ running_
                   /\ Spawned = { << k, ctl.starts >> : k \in Kinds }
                   /\ \A k \in Kinds : handle[k] = << k, ctl.starts >>

C16_Witness ==
  /\ ctl.op = "start"
  /\ ctl.pc = "idle"
  /\ ctl.result = "AlreadyRunning"
  /\ ctl.starts = 2
  /\ \A k \in Kinds : handle[k] = << k, 2 >> /\ workers[handle[k]] /= "done"

\* C17 as claimed (checked under PortFairSpec): a start() called on a Port
\* that was started and then stopped returns success, with the Port running.
C17_RestartReturns ==
  (ctl.pc = "start_check" /\ ~running_ /\ ctl.starts >= 1)
    ~> (ctl.pc = "idle" /\ ctl.op = "start" /\ ctl.result = "ok" /\ running_)

\* C18 as claimed: once stop() has returned on a started Port no forwarder
\* thread is executing any more, so whenever the owner is outside the member
\* functions and is_running() is false, no thread of the Port is running.
C18_StopJoins ==
  ctl.pc = "idle" /\ ~running_ => NoWorkerRunning

\* C19 as claimed (checked under PortFairSpec): when stop() has returned on a
\* started Port on which no frame and no datagram has arrived, both forwarder
\* threads eventually exit (unless traffic arrives or the Port is started again).
C19_IdleShutdown ==
  (ctl.pc = "idle" /\ ctl.op = "stop" /\ ctl.before.running /\ pending.arrived = 0)
    ~> (NoWorkerRunning \/ pending.arrived > 0 \/ running_)

\* C20: when the descriptor of the tap device or of the socket has been
\* closed by the destructor, running_ is false, both joining_thread members
\* have been joined and no thread spawned by the Port is still executing, so
\* no forwarder reads or writes a closed descriptor.
C20_JoinBeforeClose ==
  ~fds.tap \/ ~fds.socket
    => /\ ~running_
       /\ NoWorkerRunning
       /\ \A k \in Kinds : handle[k] = NoThread

C20_Witness ==
  /\ ctl.pc = "destroyed"
  /\ ctl.op = "destroy"
  /\ ctl.before.running
  /\ ~fds.tap
  /\ ~fds.socket
  /\ DOMAIN workers = { << k, 1 >> : k \in Kinds }
  /\ NoWorkerRunning

-----------------------------------------------------------------------------
(* Properties of the error paths and of the lifecycle *)

\* C25: a step in which receive_from() returns an error leaves the learning
\* table unchanged, hands no datagram to the socket and takes the caller back
\* to the loop condition, and from the loop condition the caller goes on to
\* the next receive when running_ is true.
C25_ReceiveErrorTolerated ==
  [][ \A t \in Callers :
        /\ pc[t] = "recv" /\ pc'[t] /= "recv" /\ recv_result'[t] = NoRecv
             => /\ pc'[t] = "loop"
                /\ mac_table' = mac_table
                /\ sent' = sent
                /\ sent_count' = sent_count
                /\ running' = running
        /\ pc[t] = "loop" /\ pc'[t] /= "loop" /\ running
             => pc'[t] = "recv" ]_vars

\* a receive error after a frame was learned, and the loop back in receive_from()
C25_Witness ==
  \E t \in Callers :
    /\ pc[t] = "recv"
    /\ recv_result[t] = NoRecv
    /\ running
    /\ mac_table /= EmptyTable
    /\ count.learned > 0

\* C21 as claimed (checked under LifecycleSpec): when a move from a Port that
\* was running has completed, the running flag of the source is false and no
\* thread the source spawned is still executing.
C21_MoveStopsSource ==
  ctl.pc = "idle" /\ ctl.op = "move" /\ ctl.before.running
    => ~running_ /\ NoWorkerRunning

\* C22 (checked under LifecycleSpec): in the step in which stop() of the Port
\* returns and in the step in which stop() of the Switch stores the flag, the
\* running flag becomes false; stop() on a Port that was not running when it
\* was called has changed nothing of the Port, and stop() on a Switch that is
\* not running changes nothing at all.
C22_StopIdempotent ==
  [][ /\ ctl.op = "stop" /\ ctl.pc \in { "stop_check", "stop_store" } /\ ctl'.pc = "idle"
           => /\ ~running_'
              /\ ~ctl.before.running
                   => /\ UNCHANGED << running_, workers, handle, fds, pending, io >>
                      /\ ctl'.before = ctl.before
      /\ stop_pc = "store" /\ stop_pc' = "idle" => ~running'
      /\ VSwitch_stop_check /\ ~running
           => UNCHANGED << running, mac_table, pc, switch_locals, start_result, stop_pc,
                           last_writer, port_state >> ]_vars

\* the Port was started and stopped and a second stop() has returned; the
\* Switch was started and stopped (start() has returned)
C22_Witness ==
  /\ ctl.pc = "idle"
  /\ ctl.op = "stop"
  /\ ~ctl.before.running
  /\ ctl.starts > 0
  /\ ~running_
  /\ ~running
  /\ stop_pc = "idle"
  /\ \E t \in Callers : start_result[t] = "ok"

\* C23 as claimed (checked under PortSpec): stop() on a Port that is not running
\* returns the not-running error.
C23_StopReportsNotRunning ==
  ctl.pc = "idle" /\ ctl.op = "stop" /\ ~ctl.before.running => ctl.result = "NotRunning"

\* C24: a forwarder thread that is in an error branch (after a tap read
\* error, a UDP send error, a UDP receive error or a tap write error) goes
\* to the loop condition next, and a forwarder thread finishes only by a
\* step from the loop condition taken while running_ is false.
C24_ErrorsContinue ==
  [][ \A w \in DOMAIN workers :
        /\ workers[w] \in { "read_error", "write_error" } /\ workers'[w] /= workers[w]
             => workers'[w] = "loop"
        /\ workers[w] /= "done" /\ workers'[w] = "done"
             => workers[w] = "loop" /\ ~running_ ]_vars

\* both forwarders of a running Port are in an error branch: the send of a
\* frame read from the tap has failed, and receive_from() has failed
C24_Witness ==
  /\ running_
  /\ \E g \in 1..MaxStarts :
       /\ << "tap_to_switch", g >> \in DOMAIN workers
       /\ << "switch_to_tap", g >> \in DOMAIN workers
       /\ workers[<< "tap_to_switch", g >>] = "write_error"
       /\ io[<< "tap_to_switch", g >>].read /= << >>
       /\ workers[<< "switch_to_tap", g >>] = "read_error"

\* C27: every datagram a tap-to-switch thread has sent is addressed to
\* vswitch_endpoint_ and carries exactly the bytes of a frame that thread
\* read from the tap, and the frames its datagrams come from are strictly
\* later and later ones (so they are sent in the order read, each at most once).
C27_TapToSwitchFidelity ==
  \A w \in DOMAIN io :
    w[1] = "tap_to_switch"
      => LET wrote == io[w].wrote
             read  == io[w].read
         IN  /\ \A i \in DOMAIN wrote :
                   /\ wrote[i].to = vswitch_endpoint_
                   /\ wrote[i].frame \in DOMAIN read
                   /\ wrote[i].data = read[wrote[i].frame]
             /\ \A i, j \in DOMAIN wrote : i < j => wrote[i].frame < wrote[j].frame

\* a tap-to-switch thread has sent a runt and a full frame, in the order read
C27_Witness ==
  \E w \in DOMAIN io :
    /\ w[1] = "tap_to_switch"
    /\ Len(io[w].wrote) = 2
    /\ io[w].wrote[1].data = << 0, 17, 34 >>
    /\ io[w].wrote[2].data = EthernetFrame_serialize(Frame(MacB, MacA))
    /\ io[w].read = << io[w].wrote[1].data, io[w].wrote[2].data >>

-----------------------------------------------------------------------------
(* Properties of the functions without shared state (checked under ValueSpec) *)

\* C26: VPort::create with an empty switch address or switch port 0 returns
\* InvalidVSwitchEndpoint without having called TapDevice::create or
\* UdpSocket::create, and with a non-empty address and a non-zero port it
\* returns something else.
C26_CreateValidatesFirst ==
  applied.name = "create"
    => IF applied.vswitch_address = "" \/ applied.vswitch_port = 0
         THEN returned.result = "InvalidVSwitchEndpoint" /\ returned.calls = << >>
         ELSE returned.result /= "InvalidVSwitchEndpoint"

C26_Witness ==
  /\ applied.name = "create"
  /\ applied.vswitch_address /= ""
  /\ applied.vswitch_port = 0
  /\ returned.result = "InvalidVSwitchEndpoint"
  /\ returned.calls = << >>

\* C28: parse(serialize(f)) has the dst, src, ethertype and payload of f for
\* every frame f, and serialize(parse(b)) = b for every byte string b of at
\* least 14 bytes.
C28_CodecRoundTrip ==
  /\ applied.name = "serialize"
       => LET parsed == EthernetFrame_parse(returned)
          IN  /\ parsed.dst_mac = applied.frame.dst_mac
              /\ parsed.src_mac = applied.frame.src_mac
              /\ parsed.ethertype = applied.frame.ethertype
              /\ parsed.payload = applied.frame.payload
  /\ applied.name = "parse" /\ Len(applied.data) >= ETHERNET_HEADER_SIZE
       => EthernetFrame_serialize(returned) = applied.data

C28_Witness ==
  /\ applied.name = "serialize"
  /\ applied.frame.ethertype = 34525
  /\ applied.frame.payload /= << >>
  /\ returned[13] = 134
  /\ returned[14] = 221
  /\ EthernetFrame_parse(returned) = applied.frame

\* C29: EthernetFrame::parse returns a frame for every byte string (two
\* addresses of six bytes, a 16-bit ethertype, a payload of bytes), and the
\* default frame (zero addresses, ethertype 0, empty payload) for every byte
\* string shorter than 14 bytes.
C29_ParseSafety ==
  applied.name = "parse"
    => /\ Len(returned.dst_mac) = MAC_ADDRESS_SIZE
       /\ Len(returned.src_mac) = MAC_ADDRESS_SIZE
       /\ returned.ethertype \in 0..65535
       /\ \A i \in DOMAIN returned.payload : returned.payload[i] \in 0..255
       /\ Len(applied.data) < ETHERNET_HEADER_SIZE
            => /\ MacAddress_is_zero(returned.dst_mac)
               /\ MacAddress_is_zero(returned.src_mac)
               /\ returned.ethertype = 0
               /\ returned.payload = << >>

C29_Witness ==
  /\ applied.name = "parse"
  /\ Len(applied.data) = ETHERNET_HEADER_SIZE - 1
  /\ applied.data[1] = 255
  /\ returned = DefaultFrame

\* a string from_string is specified to reject: its length is not 17, or its
\* separators are not all ':' or all '-', or a digit position holds a
\* character that is not a hexadecimal digit
Malformed(str) ==
  \/ Len(str) /= 17
  \/ str[3] \notin { ":", "-" }
  \/ \E i \in 1..5 : str[3 * i] /= str[3]
  \/ \E i \in 0..5 : \E k \in 1..2 : str[3 * i + k] \notin DOMAIN HexValue

\* C30 as claimed: from_string returns the zero address for every malformed
\* string.
C30_MalformedIsZero ==
  applied.name = "from_string" /\ Malformed(applied.str) => MacAddress_is_zero(returned)

\* what the code does guarantee: a wrong length, a wrong or mixed separator,
\* and a byte with no hexadecimal digit where std::stoi starts converting
C30_RejectedByCode ==
  applied.name = "from_string"
    /\ (\/ Len(applied.str) /= 17
        \/ applied.str[3] \notin { ":", "-" }
        \/ \E i \in 1..5 : applied.str[3 * i] /= applied.str[3]
        \/ \E i \in 0..5 : std_stoi(SubSeq(applied.str, 3 * i + 1, 3 * i + 2)).thrown)
    => MacAddress_is_zero(returned)

-----------------------------------------------------------------------------
(* Properties of the resource wrappers and of shutdown *)

-----------------------------------------------------------------------------
(* Further properties of the per-frame algorithm (checked under Spec) *)

\* t is in the broadcast branch of process_frame, or has just finished it
InFanout(t) ==
  /\ pc[t] \in { "fanout", "ret" }
  /\ frame(t).dst_mac = BroadcastMac
  /\ BroadcastMac \notin DOMAIN mac_table

\* C33: throughout a fan-out, whatever sends have failed, the sends made and
\* the sends still to be made together are one per table entry other than the
\* frame's source MAC, the table is the one the learning step left (it binds
\* exactly the MACs learned, the source MAC to the sender), and sent_count,
\* the number the broadcast record reports, is the number of sends that
\* succeeded.
C33_FanoutToleratesErrors ==
  \A t \in Callers :
    InFanout(t)
      => /\ Len(sent[t]) + Len(all_endpoints[t])
              = Cardinality((DOMAIN mac_table) \ { frame(t).src_mac })
         /\ sent_count[t] = count.fanout_ok
         /\ sent_count[t] <= Len(sent[t])
         /\ DOMAIN mac_table = { m \in Macs : last_writer[m].has_value }
         /\ MacTable_lookup(mac_table, frame(t).src_mac) = Some(sender_endpoint(t))

\* a fan-out to two endpoints has finished although a send failed
C33_Witness ==
  \E t \in Callers :
    /\ InFanout(t)
    /\ pc[t] = "ret"
    /\ Len(sent[t]) = 2
    /\ sent_count[t] = 1

\* C34: the keys of the learning table are exactly the source MACs of the
\* datagrams learned so far (the zero MAC for a datagram shorter than a
\* header), at every point of the receive loop, so no step of the dispatch
\* adds or removes a key and the number of learned MACs never decreases.
C34_NoAging ==
  /\ DOMAIN mac_table = { m \in Macs : last_writer[m].has_value }
  /\ MacTable_size(mac_table) <= count.learned

C34_Witness ==
  /\ ZeroMac \in DOMAIN mac_table
  /\ MacTable_size(mac_table) = 3
  /\ count.dispatched = 4

\* C40 as claimed: in one fan-out no two datagrams go to the same endpoint.
C40_OncePerEndpoint ==
  \A t \in Callers :
    InFanout(t)
      => \A i, j \in DOMAIN sent[t] : i /= j => sent[t][i].to /= sent[t][j].to

\* C40, as the code has it: when a fan-out has finished, every endpoint has
\* been sent one copy of the frame for each table entry, other than the entry
\* of the frame's source MAC, that is bound to it.
C40_OncePerEntry ==
  \A t \in Callers :
    InFanout(t) /\ pc[t] = "ret"
      => \A e \in Senders :
           Occurrences(sent[t], [ data |-> frame_data(t), to |-> e ])
             = Cardinality({ m \in (DOMAIN mac_table) \ { frame(t).src_mac } : mac_table[m] = e })

\* two learned MACs are bound to one endpoint, which got two copies
C40_Witness ==
  \E t \in Callers :
    /\ InFanout(t)
    /\ pc[t] = "ret"
    /\ Len(sent[t]) = 2
    /\ sent[t][1].to = sent[t][2].to
    /\ sent[t][1].to /= sender_endpoint(t)

-----------------------------------------------------------------------------
(* Shutdown of the port process and of the Switch loop *)

\* C36 as claimed (checked under PortFairSpec): once the signal handler of the
\* port process has begun stop() and the destruction of a running Port
\* (g_vport->stop(); g_vport.reset();), the destruction completes, so that
\* std::exit is reached, also when no frame or datagram ever arrives.
C36_SignalShutdown ==
  (ctl.op = "destroy" /\ ctl.before.running /\ pending.arrived = 0)
    ~> (ctl.pc = "destroyed" \/ pending.arrived > 0)

\* C39 as claimed: of each kind of forwarder at most one thread of the Port
\* is executing at any time; a thread spawned by an earlier start() has
\* finished before the thread of a later start() runs.
C39_OneWorkerPerKind ==
  \A k \in Kinds :
    Cardinality({ w \in DOMAIN workers : w[1] = k /\ workers[w] /= "done" }) <= 1

\* C37: while start() is inside its receive loop and stop() has cleared
\* running_, the flag stays false, no datagram is received except by the
\* receive_from() call that was pending (after which the loop does not call
\* receive_from() again), and the step from the loop condition makes start()
\* return success.
C37_StopBoundsTheLoop ==
  [][ \A t \in Callers :
        ~running /\ pc[t] \in InReceiveLoop
          => /\ ~running'
             /\ pc'[t] = "recv" => pc[t] = "recv"
             /\ count'.received /= count.received => pc[t] = "recv" /\ pc'[t] = "learn"
             /\ pc[t] = "loop" /\ pc'[t] /= "loop"
                  => pc'[t] = "idle" /\ start_result'[t] = "ok" ]_vars

\* start() has returned success with the flag false after a stop() that was
\* called while it ran, and datagrams were processed before
C37_Witness ==
  /\ pc["main"] = "idle"
  /\ start_result["main"] = "ok"
  /\ ~running
  /\ stop_pc = "idle"
  /\ count.stops = 1
  /\ count.dispatched >= 2

\* C38 as claimed (checked under FairSpec): when stop() has been called after
\* a start() call began, that start() call eventually returns.
C38_StopNeverLost ==
  (pc["main"] /= "idle" /\ count.stops = 1) ~> (pc["main"] = "idle")

-----------------------------------------------------------------------------
(* Properties of FileDescriptor (checked under FdSpec) *)

\* the live FileDescriptor objects holding the descriptor d, in the given state
Owners(objects, held, d) == { w \in objects : held[w] = d }

\* C32: over every sequence of constructions, moves, close, reset, release
\* and destructions, a descriptor that was opened and not yet closed is held
\* by exactly one live object or by the program after a release, and a
\* closed one by nobody; ::close is called on it at most once, and only in a
\* step of the object that owned it, after which that object no longer
\* holds it; a release closes nothing; and an object that gives up
\* its descriptor without taking another one holds -1, so that a further
\* close of it changes nothing.
C32_SingleOwner ==
  [][ /\ \A d \in DOMAIN closes' :
           /\ closes'[d] <= 1
           /\ Cardinality(Owners(alive', fd_', d)) + (IF d \in raw' THEN 1 ELSE 0)
                = 1 - closes'[d]
      /\ \A d \in DOMAIN closes :
           closes'[d] /= closes[d]
             => /\ d \notin raw'
                /\ \E w \in Owners(alive, fd_, d) : w \notin alive' \/ fd_'[w] /= d
      /\ \A w \in alive :
           /\ fd_[w] \in raw' => closes' = closes /\ fd_'[w] = -1
           /\ fd_'[w] /= fd_[w]
                => \/ fd_'[w] = -1
                   \/ fd_'[w] \in raw
                   \/ \E other \in alive : fd_[other] = fd_'[w] /\ fd_'[other] = -1
           /\ fd_[w] = -1 /\ FileDescriptor_close(w) => UNCHANGED vars
      /\ \A w \in FileDescriptors : w \notin alive' => fd_'[w] = -1 ]_vars

\* three descriptors were opened; two have been closed, each once, and the
\* third is owned by the one object that is left, the other object holding
\* none
C32_Witness ==
  /\ DOMAIN closes = { 3, 4, 5 }
  /\ closes[3] = 1
  /\ closes[4] = 1
  /\ closes[5] = 0
  /\ alive = { "fd1", "fd2" }
  /\ fd_["fd1"] = -1
  /\ fd_["fd2"] = 5
  /\ raw = {}

====
